---- MODULE Spec2Model ----
(***************************************************************************)
(* Model of the Netflix catalogue API (api/models.py, api/serializers.py,  *)
(* api/views.py) and of its CSV loader (management command                 *)
(* load_netflix_data).  The record store is the NetflixTitle table; every  *)
(* SQL statement a handler issues is one atomic step, so that requests     *)
(* interleave between statements as they do under autocommit.              *)
(***************************************************************************)
EXTENDS Integers, Sequences, FiniteSets, TLC

(***************************************************************************)
(* Bounds of the model.                                                    *)
(***************************************************************************)
MaxStore == 3
MaxYears == 22

(***************************************************************************)
(* Text.  A text is a sequence of one-character strings; None is Python's  *)
(* None / SQL NULL.                                                        *)
(***************************************************************************)
None == <<"None">>

UpperChars == <<"A","B","C","D","E","F","G","H","I","J","K","L","M",
                "N","O","P","Q","R","S","T","U","V","W","X","Y","Z">>
LowerChars == <<"a","b","c","d","e","f","g","h","i","j","k","l","m",
                "n","o","p","q","r","s","t","u","v","w","x","y","z">>
DigitChars == <<"0","1","2","3","4","5","6","7","8","9">>

IndexOf(seq, c) == IF \E i \in 1..Len(seq) : seq[i] = c
                   THEN CHOOSE i \in 1..Len(seq) : seq[i] = c
                   ELSE 0

LowerChar(c) == IF IndexOf(UpperChars, c) > 0 THEN LowerChars[IndexOf(UpperChars, c)] ELSE c

Lower(t) == [i \in 1..Len(t) |-> LowerChar(t[i])]

IsSpace(c) == c = " "

Contains(hay, needle) ==
    \E i \in 0..(Len(hay) - Len(needle)) : SubSeq(hay, i + 1, i + Len(needle)) = needle

RECURSIVE LStrip(_)
LStrip(t) == IF t # <<>> /\ IsSpace(Head(t)) THEN LStrip(Tail(t)) ELSE t

RECURSIVE RStrip(_)
RStrip(t) == IF t # <<>> /\ IsSpace(t[Len(t)]) THEN RStrip(SubSeq(t, 1, Len(t) - 1)) ELSE t

Strip(t) == RStrip(LStrip(t))

(* str.split(sep) for a one-character separator: always at least one piece *)
RECURSIVE Split(_, _)
Split(t, sep) ==
    IF \E i \in 1..Len(t) : t[i] = sep
    THEN LET i == CHOOSE k \in 1..Len(t) : t[k] = sep /\ \A j \in 1..(k - 1) : t[j] # sep
         IN  <<SubSeq(t, 1, i - 1)>> \o Split(SubSeq(t, i + 1, Len(t)), sep)
    ELSE <<t>>

IsDigit(c) == IndexOf(DigitChars, c) > 0
DigitVal(c) == IndexOf(DigitChars, c) - 1

(* the digits of Python's int(): decimal digits, single underscores between them *)
IsDigits(t) ==
    /\ t # <<>>
    /\ IsDigit(t[1]) /\ IsDigit(t[Len(t)])
    /\ \A i \in 1..Len(t) : IsDigit(t[i]) \/ t[i] = "_"
    /\ \A i \in 1..(Len(t) - 1) : ~(t[i] = "_" /\ t[i + 1] = "_")

RECURSIVE DigitsValue(_, _)
DigitsValue(t, acc) ==
    IF t = <<>> THEN acc
    ELSE IF Head(t) = "_" THEN DigitsValue(Tail(t), acc)
    ELSE DigitsValue(Tail(t), 10 * acc + DigitVal(Head(t)))

HasSign(t) == t # <<>> /\ Head(t) \in {"+", "-"}
Unsigned(t) == IF HasSign(t) THEN Tail(t) ELSE t

(* int(text): ParsesAsInt is "no ValueError", IntOf the value *)
ParsesAsInt(t) == IsDigits(Unsigned(Strip(t)))
IntOf(t) == LET s == Strip(t)
                v == DigitsValue(Unsigned(s), 0)
            IN  IF HasSign(s) /\ Head(s) = "-" THEN 0 - v ELSE v

(* truthiness of request.GET.get(name): None and '' are false *)
Truthy(x) == x # None /\ x # <<>>

(***************************************************************************)
(* Dates.  A date is <<year, month, day>>.                                 *)
(***************************************************************************)
IsLeap(y) == (y % 4 = 0 /\ y % 100 # 0) \/ y % 400 = 0
DaysInMonth(y, m) == IF m = 2 THEN (IF IsLeap(y) THEN 29 ELSE 28)
                     ELSE IF m \in {4, 6, 9, 11} THEN 30 ELSE 31
IsDate(y, m, d) == y >= 1 /\ y <= 9999 /\ m \in 1..12 /\ d >= 1 /\ d <= DaysInMonth(y, m)

AllDigits(t) == t # <<>> /\ \A i \in 1..Len(t) : IsDigit(t[i])

(* the serializer's DateField: YYYY-M[M]-D[D] of a calendar date *)
IsoParts(t) == Split(t, "-")
ParsesAsIsoDate(t) ==
    LET ps == IsoParts(t) IN
    /\ Len(ps) = 3
    /\ AllDigits(ps[1]) /\ Len(ps[1]) = 4
    /\ AllDigits(ps[2]) /\ Len(ps[2]) \in {1, 2}
    /\ AllDigits(ps[3]) /\ Len(ps[3]) \in {1, 2}
    /\ IsDate(DigitsValue(ps[1], 0), DigitsValue(ps[2], 0), DigitsValue(ps[3], 0))
IsoDateOf(t) == LET ps == IsoParts(t)
                IN  <<DigitsValue(ps[1], 0), DigitsValue(ps[2], 0), DigitsValue(ps[3], 0)>>

(***************************************************************************)
(* The NetflixTitle model (api/models.py).                                 *)
(***************************************************************************)
Movie == <<"M","o","v","i","e">>
TVShow == <<"T","V"," ","S","h","o","w">>
TYPE_CHOICES == {Movie, TVShow}

MaxLenShowId == 20
MaxLenTitle == 250
MaxLenDirector == 250
MaxLenCountry == 150
MaxLenRating == 10
MaxLenDuration == 20
MinReleaseYear == 1900
MaxReleaseYear == 2030

FieldNames == {"show_id", "type", "title", "director", "cast", "country",
               "date_added", "release_year", "rating", "duration", "listed_in",
               "description"}

(* fields declared without blank=True / null=True: the serializer requires them *)
RequiredFields == {"show_id", "type", "title", "release_year", "duration",
                   "listed_in", "description"}

(***************************************************************************)
(* NetflixTitleSerializer (api/serializers.py).  A request body p has the  *)
(* set p.has of the keys it carries and their values p.data; every value   *)
(* is a text or None (JSON null).                                          *)
(***************************************************************************)
Given(p, f) == f \in p.has /\ p.data[f] # None

validate_release_year(value) == ~(value < 1900 \/ value > 2030)

validate_type(value) == value \in {Movie, TVShow}

(* CharField of a required model field: present, not blank after trimming, within max_length (0: none) *)
RequiredTextValid(p, f, maxlen) ==
    /\ Given(p, f)
    /\ Strip(p.data[f]) # <<>>
    /\ (maxlen = 0 \/ Len(Strip(p.data[f])) <= maxlen)

(* CharField of a blank=True, null=True model field *)
OptionalTextValid(p, f, maxlen) ==
    \/ ~Given(p, f)
    \/ maxlen = 0
    \/ Len(Strip(p.data[f])) <= maxlen

(* a type field without choices and without validate_type *)
TypeValid_NoChoices(p) == Given(p, "type")

TypeValid(p) ==
    /\ Given(p, "type")
    /\ p.data["type"] \in TYPE_CHOICES
    /\ validate_type(p.data["type"])

ReleaseYearValid(p) ==
    /\ Given(p, "release_year")
    /\ ParsesAsInt(p.data["release_year"])
    /\ IntOf(p.data["release_year"]) >= MinReleaseYear
    /\ IntOf(p.data["release_year"]) <= MaxReleaseYear
    /\ validate_release_year(IntOf(p.data["release_year"]))

DateAddedValid(p) == ~Given(p, "date_added") \/ ParsesAsIsoDate(p.data["date_added"])

(* every field validator except the uniqueness of show_id *)
FieldsValid(p) ==
    /\ RequiredTextValid(p, "show_id", MaxLenShowId)
    /\ TypeValid(p)
    /\ RequiredTextValid(p, "title", MaxLenTitle)
    /\ OptionalTextValid(p, "director", MaxLenDirector)
    /\ OptionalTextValid(p, "cast", 0)
    /\ OptionalTextValid(p, "country", MaxLenCountry)
    /\ DateAddedValid(p)
    /\ ReleaseYearValid(p)
    /\ OptionalTextValid(p, "rating", MaxLenRating)
    /\ RequiredTextValid(p, "duration", MaxLenDuration)
    /\ RequiredTextValid(p, "listed_in", 0)
    /\ RequiredTextValid(p, "description", 0)

UniqueIds(rows) == \A i, j \in 1..Len(rows) : rows[i].show_id = rows[j].show_id => i = j

(* the row with primary key id, as the UniqueValidator's query sees it *)
IdExists(rows, id) == \E i \in 1..Len(rows) : rows[i].show_id = id

(* is_valid() without the UniqueValidator of show_id *)
is_valid_NoUniqueCheck(p, rows) == FieldsValid(p)

(* serializer.is_valid(): field validation, then the unique check of show_id *)
is_valid(p, rows) == FieldsValid(p) /\ ~IdExists(rows, Strip(p.data["show_id"]))

CleanText(p, f) == IF Given(p, f) THEN Strip(p.data[f]) ELSE None

(* validated_data as a model instance: absent optional fields take the default None *)
ValidatedTitle(p) ==
    [show_id      |-> CleanText(p, "show_id"),
     type         |-> p.data["type"],
     title        |-> CleanText(p, "title"),
     director     |-> CleanText(p, "director"),
     cast         |-> CleanText(p, "cast"),
     country      |-> CleanText(p, "country"),
     date_added   |-> IF Given(p, "date_added") THEN IsoDateOf(p.data["date_added"]) ELSE None,
     release_year |-> IntOf(p.data["release_year"]),
     rating       |-> CleanText(p, "rating"),
     duration     |-> CleanText(p, "duration"),
     listed_in    |-> CleanText(p, "listed_in"),
     description  |-> CleanText(p, "description")]

(***************************************************************************)
(* The CSV loader (management command load_netflix_data), its pure part.   *)
(* A row maps every column to a text, or to None where the line is short.  *)
(***************************************************************************)
MonthNames ==
    << <<"j","a","n","u","a","r","y">>, <<"f","e","b","r","u","a","r","y">>,
       <<"m","a","r","c","h">>, <<"a","p","r","i","l">>, <<"m","a","y">>,
       <<"j","u","n","e">>, <<"j","u","l","y">>, <<"a","u","g","u","s","t">>,
       <<"s","e","p","t","e","m","b","e","r">>, <<"o","c","t","o","b","e","r">>,
       <<"n","o","v","e","m","b","e","r">>, <<"d","e","c","e","m","b","e","r">> >>

(* the pieces of t between runs of spaces *)
Words(t) == SelectSeq(Split(t, " "), LAMBDA w : w # <<>>)

(* datetime.strptime(t, '%B %d, %Y'): month name in any case, day, comma, 4-digit year *)
DayWord(w) == Len(w) \in {2, 3} /\ w[Len(w)] = "," /\ AllDigits(SubSeq(w, 1, Len(w) - 1))
ParsesAsLongDate(t) ==
    LET ws == Words(t) IN
    /\ Len(ws) = 3
    /\ IndexOf(MonthNames, Lower(ws[1])) > 0
    /\ DayWord(ws[2])
    /\ AllDigits(ws[3]) /\ Len(ws[3]) = 4
    /\ IsDate(DigitsValue(ws[3], 0), IndexOf(MonthNames, Lower(ws[1])),
              DigitsValue(SubSeq(ws[2], 1, Len(ws[2]) - 1), 0))
LongDateOf(t) ==
    LET ws == Words(t)
    IN  <<DigitsValue(ws[3], 0), IndexOf(MonthNames, Lower(ws[1])),
          DigitsValue(SubSeq(ws[2], 1, Len(ws[2]) - 1), 0)>>

(* lines 51-62: date_added stays None when the column is empty or does not parse *)
RowDate(row) ==
    IF Truthy(row["date_added"]) /\ Truthy(Strip(row["date_added"]))
          /\ ParsesAsLongDate(Strip(row["date_added"]))
    THEN LongDateOf(Strip(row["date_added"]))
    ELSE None

(* lines 65-78 raise for the row: .strip() of None, or int() of no integer *)
RowRaises(row) ==
    \/ \E f \in FieldNames \ {"date_added", "release_year"} : row[f] = None
    \/ row["release_year"] = None
    \/ ~ParsesAsInt(row["release_year"])

StripOrNone(t) == IF Strip(t) # <<>> THEN Strip(t) ELSE None

(* lines 65-78: the instance built from a row; no validator runs *)
RowTitle(row) ==
    [show_id      |-> Strip(row["show_id"]),
     type         |-> Strip(row["type"]),
     title        |-> Strip(row["title"]),
     director     |-> StripOrNone(row["director"]),
     cast         |-> StripOrNone(row["cast"]),
     country      |-> StripOrNone(row["country"]),
     date_added   |-> RowDate(row),
     release_year |-> IntOf(row["release_year"]),
     rating       |-> StripOrNone(row["rating"]),
     duration     |-> Strip(row["duration"]),
     listed_in    |-> Strip(row["listed_in"]),
     description  |-> Strip(row["description"])]

(* lines 49-88: titles_to_create and the number of errors, over the rows of the file *)
RECURSIVE TitlesToCreate(_)
TitlesToCreate(rows) ==
    IF rows = <<>> THEN <<>>
    ELSE IF RowRaises(Head(rows)) THEN TitlesToCreate(Tail(rows))
    ELSE <<RowTitle(Head(rows))>> \o TitlesToCreate(Tail(rows))

RECURSIVE RowErrors(_)
RowErrors(rows) ==
    IF rows = <<>> THEN 0
    ELSE (IF RowRaises(Head(rows)) THEN 1 ELSE 0) + RowErrors(Tail(rows))

(***************************************************************************)
(* The helper methods of NetflixTitle (api/models.py), on an instance t.    *)
(* A method's outcome is what it returns, or the exception it raises.       *)
(***************************************************************************)
Returns(kind, value) == [kind |-> kind, value |-> value]
ReturnsNone == Returns("None", 0)

(* [x.strip() for x in text.split(',')] *)
StrippedPieces(text) == [i \in 1..Len(Split(text, ",")) |-> Strip(Split(text, ",")[i])]

(* lines 121-126 *)
get_genres(t) == Returns("list", StrippedPieces(t.listed_in))

(* a get_cast_list without its `if not self.cast` *)
get_cast_list_NoGuard(t) == Returns("list", StrippedPieces(t.cast))

(* lines 128-135 *)
get_cast_list(t) ==
    IF ~Truthy(t.cast) THEN Returns("list", <<>>)
    ELSE Returns("list", StrippedPieces(t.cast))

(* int(self.duration.split()[0]), for a duration that has a word *)
LeadingInt(duration) ==
    IF ParsesAsInt(Head(Words(duration)))
    THEN Returns("int", IntOf(Head(Words(duration))))
    ELSE Returns("ValueError", 0)

(* a get_duration_minutes that does not look at the type *)
get_duration_minutes_AnyType(t) ==
    IF Contains(t.duration, <<"m","i","n">>) THEN LeadingInt(t.duration) ELSE ReturnsNone

(* lines 137-144 *)
get_duration_minutes(t) ==
    IF t.type = Movie /\ Contains(t.duration, <<"m","i","n">>)
    THEN LeadingInt(t.duration)
    ELSE ReturnsNone

(* lines 146-153 *)
get_duration_seasons(t) ==
    IF t.type = TVShow /\ Contains(t.duration, <<"S","e","a","s","o","n">>)
    THEN LeadingInt(t.duration)
    ELSE ReturnsNone

(***************************************************************************)
(* The store: the rows of the NetflixTitle table, in insertion order.      *)
(* show_id is the primary key: an INSERT of a stored show_id raises        *)
(* IntegrityError.                                                         *)
(***************************************************************************)
(* a table without the primary key constraint *)
InsertNeverRaises(rows, title) == FALSE

InsertRaises(rows, title) == IdExists(rows, title.show_id)

(* bulk_create inside transaction.atomic(): one stored or repeated id rolls all back *)
BulkCreateRaises(rows, titles) == ~UniqueIds(rows \o titles)

(* a bulk_create whose inserts are committed one by one: the titles before the first
   one the table refuses stay *)
RECURSIVE BulkCreate_NoTransaction(_, _)
BulkCreate_NoTransaction(rows, titles) ==
    IF titles = <<>> \/ InsertRaises(rows, Head(titles)) THEN rows
    ELSE BulkCreate_NoTransaction(Append(rows, Head(titles)), Tail(titles))

(* lines 94-95: the table after bulk_create(titles, batch_size=500) inside
   transaction.atomic(): every title, or the table as it was *)
BulkCreate(rows, titles) ==
    IF BulkCreateRaises(rows, titles) THEN rows ELSE rows \o titles

(***************************************************************************)
(* Reading the table.  NetflixTitle.Meta.ordering is                       *)
(* ['-date_added', '-release_year']: rows with equal keys come in any      *)
(* order, and NULL dates come first or last as the database has it.        *)
(***************************************************************************)
DateGreater(x, y) ==
    \/ x[1] > y[1]
    \/ x[1] = y[1] /\ x[2] > y[2]
    \/ x[1] = y[1] /\ x[2] = y[2] /\ x[3] > y[3]

(* x sorts strictly before y under ORDER BY date_added DESC *)
DateBefore(x, y, nullsFirst) ==
    IF x = None THEN y # None /\ nullsFirst
    ELSE IF y = None THEN ~nullsFirst
    ELSE DateGreater(x, y)

SameDate(x, y) == IF x = None \/ y = None THEN x = None /\ y = None ELSE x = y

(* the release year first, the date second *)
OrderedBefore_YearFirst(a, b, nullsFirst) ==
    \/ a.release_year > b.release_year
    \/ a.release_year = b.release_year /\ DateBefore(a.date_added, b.date_added, nullsFirst)

(* a sorts strictly before b under Meta.ordering *)
OrderedBefore(a, b, nullsFirst) ==
    \/ DateBefore(a.date_added, b.date_added, nullsFirst)
    \/ SameDate(a.date_added, b.date_added) /\ a.release_year > b.release_year

Injections(n, S) == {f \in [1..n -> S] : \A i, j \in 1..n : f[i] = f[j] => i = j}

(* the sequences that hold each row of rows once *)
Arrangements(rows) == {[i \in 1..Len(rows) |-> rows[f[i]]] : f \in Injections(Len(rows), 1..Len(rows))}

(* what a queryset with the default ordering can yield *)
DefaultOrderings(rows, nullsFirst) ==
    {r \in Arrangements(rows) :
        \A i \in 1..(Len(r) - 1) : ~OrderedBefore(r[i + 1], r[i], nullsFirst)}

(* field__icontains=text: NULL matches nothing *)
IContains(field, text) == field # None /\ Contains(Lower(field), Lower(text))

(***************************************************************************)
(* title_search (api/views.py), its pure part.  A query q maps each        *)
(* parameter to its text, or to None when the URL does not carry it.       *)
(***************************************************************************)
SearchParams == {"type", "rating", "country", "year_min", "year_max", "genre",
                 "director", "cast", "title"}

(* a handler that checks year_min only *)
SearchRejects_MinOnly(q) == Truthy(q["year_min"]) /\ ~ParsesAsInt(q["year_min"])

(* lines 258-276: the ValueError branches, year_min first *)
SearchRejects(q) ==
    \/ Truthy(q["year_min"]) /\ ~ParsesAsInt(q["year_min"])
    \/ Truthy(q["year_max"]) /\ ~ParsesAsInt(q["year_max"])

(* a Q object with country__contains for country__icontains *)
SearchMatches_CaseSensitive(q, t) ==
    /\ Truthy(q["type"]) => t.type = q["type"]
    /\ Truthy(q["rating"]) => t.rating = q["rating"]
    /\ Truthy(q["country"]) => (t.country # None /\ Contains(t.country, q["country"]))
    /\ Truthy(q["year_min"]) => t.release_year >= IntOf(q["year_min"])
    /\ Truthy(q["year_max"]) => t.release_year <= IntOf(q["year_max"])
    /\ Truthy(q["genre"]) => IContains(t.listed_in, q["genre"])
    /\ Truthy(q["director"]) => IContains(t.director, q["director"])
    /\ Truthy(q["cast"]) => IContains(t.cast, q["cast"])
    /\ Truthy(q["title"]) => IContains(t.title, q["title"])

(* a Q object with release_year__lt for release_year__lte *)
SearchMatches_ExclusiveMax(q, t) ==
    /\ Truthy(q["type"]) => t.type = q["type"]
    /\ Truthy(q["rating"]) => t.rating = q["rating"]
    /\ Truthy(q["country"]) => IContains(t.country, q["country"])
    /\ Truthy(q["year_min"]) => t.release_year >= IntOf(q["year_min"])
    /\ Truthy(q["year_max"]) => t.release_year < IntOf(q["year_max"])
    /\ Truthy(q["genre"]) => IContains(t.listed_in, q["genre"])
    /\ Truthy(q["director"]) => IContains(t.director, q["director"])
    /\ Truthy(q["cast"]) => IContains(t.cast, q["cast"])
    /\ Truthy(q["title"]) => IContains(t.title, q["title"])

(* lines 240-296: the Q object, a conjunction over the parameters that are set *)
SearchMatches(q, t) ==
    /\ Truthy(q["type"]) => t.type = q["type"]
    /\ Truthy(q["rating"]) => t.rating = q["rating"]
    /\ Truthy(q["country"]) => IContains(t.country, q["country"])
    /\ Truthy(q["year_min"]) => t.release_year >= IntOf(q["year_min"])
    /\ Truthy(q["year_max"]) => t.release_year <= IntOf(q["year_max"])
    /\ Truthy(q["genre"]) => IContains(t.listed_in, q["genre"])
    /\ Truthy(q["director"]) => IContains(t.director, q["director"])
    /\ Truthy(q["cast"]) => IContains(t.cast, q["cast"])
    /\ Truthy(q["title"]) => IContains(t.title, q["title"])

(* queryset.filter(filters) *)
SearchRows(q, rows) == SelectSeq(rows, LAMBDA t : SearchMatches(q, t))

(***************************************************************************)
(* title_list (api/views.py), its pure part.  A query maps type, rating    *)
(* and year to a text, or to None when the URL does not carry it.          *)
(***************************************************************************)
(* lines 74-82: the ValueError branch *)
ListRejects(q) == Truthy(q.year) /\ ~ParsesAsInt(q.year)

(* a handler that forgets the rating filter *)
ListMatches_NoRating(q, t) ==
    /\ Truthy(q.type) => t.type = q.type
    /\ Truthy(q.year) => t.release_year = IntOf(q.year)

(* lines 68-77: the filters *)
ListMatches(q, t) ==
    /\ Truthy(q.type) => t.type = q.type
    /\ Truthy(q.rating) => t.rating = q.rating
    /\ Truthy(q.year) => t.release_year = IntOf(q.year)

ListRows(q, rows) == SelectSeq(rows, LAMBDA t : ListMatches(q, t))

(***************************************************************************)
(* statistics (api/views.py), its pure part.                               *)
(***************************************************************************)
TopCountriesLimit == 10
ContentByYearLimit == 20

Take(seq, n) == SubSeq(seq, 1, IF Len(seq) < n THEN Len(seq) ELSE n)

(* values(f).annotate(count=Count('show_id')): one entry per value of field f *)
Groups(rows, f) ==
    {[key |-> v, count |-> Cardinality({i \in 1..Len(rows) : rows[i][f] = v})] :
        v \in {rows[i][f] : i \in 1..Len(rows)}}

(* the entries in any order at all *)
Distributions_Unordered(rows, f) ==
    Injections(Cardinality(Groups(rows, f)), Groups(rows, f))

(* ...order_by('-count'): entries with equal counts come in any order *)
Distributions(rows, f) ==
    {d \in Injections(Cardinality(Groups(rows, f)), Groups(rows, f)) :
        \A i \in 1..(Len(d) - 1) : d[i].count >= d[i + 1].count}

(* values('release_year').annotate(count).order_by('-release_year'), then [:20] (line 203) *)
RECURSIVE ByKeyDescending(_)
ByKeyDescending(S) ==
    IF S = {} THEN <<>>
    ELSE LET g == CHOOSE x \in S : \A y \in S : y.key <= x.key
         IN  <<g>> \o ByKeyDescending(S \ {g})

YearsDescending(rows) == ByKeyDescending(Groups(rows, "release_year"))

(* the twenty earliest years instead of the twenty latest *)
ContentByYear_Earliest(rows) ==
    SubSeq(YearsDescending(rows),
           IF Len(YearsDescending(rows)) > ContentByYearLimit
           THEN Len(YearsDescending(rows)) - ContentByYearLimit + 1 ELSE 1,
           Len(YearsDescending(rows)))

ContentByYear(rows) == Take(YearsDescending(rows), ContentByYearLimit)

(* line 164: exclude(country__isnull=True).exclude(country='') *)
CountryRows(rows) == SelectSeq(rows, LAMBDA t : t.country # None /\ t.country # <<>>)

(* line 167: [c.strip() for c in title.country.split(',')] *)
CountryNames(t) == [i \in 1..Len(Split(t.country, ",")) |-> Strip(Split(t.country, ",")[i])]

RECURSIVE AllCountryNames(_)
AllCountryNames(rows) ==
    IF rows = <<>> THEN <<>> ELSE CountryNames(Head(rows)) \o AllCountryNames(Tail(rows))

(* the keys of a dict filled in the order of names *)
RECURSIVE FirstSeen(_)
FirstSeen(names) ==
    IF names = <<>> THEN <<>>
    ELSE <<Head(names)>> \o FirstSeen(SelectSeq(Tail(names), LAMBDA x : x # Head(names)))

Occurrences(names, x) == Cardinality({i \in 1..Len(names) : names[i] = x})

(* lines 165-169: country_counts.items() *)
CountryCounts(names) ==
    [i \in 1..Len(FirstSeen(names)) |->
        [country |-> FirstSeen(names)[i], count |-> Occurrences(names, FirstSeen(names)[i])]]

(* sorted(items, key=count, reverse=True): stable *)
RECURSIVE SortedByCount(_)
SortedByCount(items) ==
    IF items = <<>> THEN <<>>
    ELSE LET i == CHOOSE k \in 1..Len(items) :
                      /\ \A j \in 1..Len(items) : items[j].count <= items[k].count
                      /\ \A j \in 1..(k - 1) : items[j].count < items[k].count
         IN  <<items[i]>> \o SortedByCount(SubSeq(items, 1, i - 1) \o SubSeq(items, i + 1, Len(items)))

(* the first ten countries in the order of their first occurrence, unsorted *)
TopCountries_Unsorted(rows) == Take(CountryCounts(AllCountryNames(rows)), TopCountriesLimit)

(* lines 165-172, over the rows as the loop of line 166 meets them *)
TopCountries(rows) == Take(SortedByCount(CountryCounts(AllCountryNames(rows))), TopCountriesLimit)

(* str(n) *)
RECURSIVE NatToText(_)
NatToText(n) == IF n < 10 THEN <<DigitChars[n + 1]>> ELSE NatToText(n \div 10) \o <<DigitChars[(n % 10) + 1]>>
IntToText(n) == IF n < 0 THEN <<"-">> \o NatToText(0 - n) ELSE NatToText(n)

RECURSIVE SumCounts(_)
SumCounts(S) == IF S = {} THEN 0 ELSE LET g == CHOOSE x \in S : TRUE IN g.count + SumCounts(S \ {g})

DecadeOf(year) == (year \div 10) * 10

(* lines 175-185: decade_counts, from the per-year counts; the decade annotation of
   line 176 is not read *)
DecadeCounts(rows) ==
    {[decade |-> d,
      count |-> SumCounts({g \in Groups(rows, "release_year") : DecadeOf(g.key) = d})] :
        d \in {DecadeOf(rows[i].release_year) : i \in 1..Len(rows)}}

(* lines 187-190: sorted(decade_counts.items(), reverse=True), labelled "<decade>s" *)
DecadeAnalysis(rows) ==
    LET S == DecadeCounts(rows)
        d == CHOOSE x \in Injections(Cardinality(S), S) :
                 \A i \in 1..(Len(x) - 1) : x[i].decade > x[i + 1].decade
    IN  [i \in 1..Len(d) |-> [decade |-> IntToText(d[i].decade) \o <<"s">>, count |-> d[i].count]]

RECURSIVE SumYears(_)
SumYears(rows) == IF rows = <<>> THEN 0 ELSE Head(rows).release_year + SumYears(Tail(rows))

(* Avg('release_year'): the mean as <<sum, number of rows>>, None over no row *)
AverageYear(rows) == IF rows = <<>> THEN None ELSE <<SumYears(rows), Len(rows)>>

(* lines 193-197: aggregate(Avg, Min, Max), each None over no row *)
AverageStats(rows) ==
    [avg_year |-> AverageYear(rows),
     min_year |-> IF rows = <<>> THEN None
                  ELSE CHOOSE y \in {rows[i].release_year : i \in 1..Len(rows)} :
                          \A i \in 1..Len(rows) : y <= rows[i].release_year,
     max_year |-> IF rows = <<>> THEN None
                  ELSE CHOOSE y \in {rows[i].release_year : i \in 1..Len(rows)} :
                          \A i \in 1..Len(rows) : y >= rows[i].release_year]

(***************************************************************************)
(* country_titles (api/views.py), its pure part.                           *)
(***************************************************************************)
(* line 337: filter(country__icontains=country_name) *)
CountryMatches(name, rows) == SelectSeq(rows, LAMBDA t : IContains(t.country, name))

(* line 347: values('type').annotate(count), one entry per type (Meta.ordering is not
   applied to a grouped query), in any order *)
TypeBreakdowns(rows) == Injections(Cardinality(Groups(rows, "type")), Groups(rows, "type"))

(***************************************************************************)
(* recommendations (api/views.py), its pure part.  A query maps genre,     *)
(* type and recent to a text, or to None when the URL does not carry it.   *)
(***************************************************************************)
RecommendationsLimit == 20
RecentYears == 3

(* a handler that refuses a missing genre only *)
RecommendationsRejects_MissingOnly(q) == q.genre = None

(* lines 388-393: if not genre *)
RecommendationsRejects(q) == ~Truthy(q.genre)

(* lines 404-408: recent and recent.lower() == 'true' *)
WantsRecent(q) == Truthy(q.recent) /\ Lower(q.recent) = <<"t","r","u","e">>

(* lines 396-408: the filters, now being datetime.now().year *)
RecommendationMatches(q, now, t) ==
    /\ IContains(t.listed_in, q.genre)
    /\ Truthy(q.type) => t.type = q.type
    /\ WantsRecent(q) => t.release_year >= now - RecentYears

RecommendationRows(q, now, rows) == {t \in {rows[i] : i \in 1..Len(rows)} : RecommendationMatches(q, now, t)}

(* the oldest year first *)
RecommendedBefore_Ascending(a, b, nullsFirst) ==
    \/ a.release_year < b.release_year
    \/ a.release_year = b.release_year /\ DateBefore(a.date_added, b.date_added, nullsFirst)

(* a sorts strictly before b under order_by('-release_year', '-date_added') *)
RecommendedBefore(a, b, nullsFirst) ==
    \/ a.release_year > b.release_year
    \/ a.release_year = b.release_year /\ DateBefore(a.date_added, b.date_added, nullsFirst)

(* the orders the database can return the rows S in: equal keys come in any order *)
RECURSIVE RecommendationOrderings(_, _)
RecommendationOrderings(S, nullsFirst) ==
    IF S = {} THEN {<<>>}
    ELSE UNION {{<<x>> \o r : r \in RecommendationOrderings(S \ {x}, nullsFirst)} :
                   x \in {y \in S : \A z \in S : ~RecommendedBefore(z, y, nullsFirst)}}

(* line 411: order_by(...)[:20] *)
RecommendationPages(S, nullsFirst) ==
    {Take(r, RecommendationsLimit) : r \in RecommendationOrderings(S, nullsFirst)}

(***************************************************************************)
(* Request bodies of POST /api/titles/create/ used as inputs.              *)
(***************************************************************************)
S1 == <<"s","1">>
S2 == <<"s","2">>
S3 == <<"s","3">>
Min90 == <<"9","0"," ","m","i","n">>
Seasons2 == <<"2"," ","S","e","a","s","o","n","s">>
Drama == <<"D","r","a","m","a">>
Y2019 == <<"2","0","1","9">>
Y2020 == <<"2","0","2","0">>
Y2021 == <<"2","0","2","1">>
PG == <<"P","G">>
Jan15 == <<"2","0","2","1","-","0","1","-","1","5">>

Blank == [f \in FieldNames |-> None]

Body(has, d) == [has |-> has, data |-> [f \in FieldNames |-> IF f \in has THEN d[f] ELSE None]]

D1 == [Blank EXCEPT !["show_id"] = S1, !["type"] = Movie,
         !["title"] = <<"J","a","w","s">>, !["director"] = <<"A","l">>,
         !["cast"] = <<"B","o",","," ","C","y">>, !["country"] = <<"U","S">>,
         !["date_added"] = Jan15, !["release_year"] = Y2020, !["rating"] = PG,
         !["duration"] = Min90,
         !["listed_in"] = <<"A","c","t","i","o","n",","," ","D","r","a","m","a">>,
         !["description"] = <<"d">>]
D2 == [Blank EXCEPT !["show_id"] = S2, !["type"] = TVShow,
         !["title"] = <<"L","o","s","t">>, !["country"] = <<"U","K",","," ","u","s">>,
         !["release_year"] = Y2019, !["rating"] = <<"R">>, !["duration"] = Seasons2,
         !["listed_in"] = Drama, !["description"] = <<"d">>]
D3 == [Blank EXCEPT !["show_id"] = S3, !["type"] = Movie,
         !["title"] = <<" ","U","p"," ">>, !["director"] = <<"a","l"," ","b">>,
         !["cast"] = <<>>, !["date_added"] = Jan15, !["release_year"] = Y2020,
         !["rating"] = PG, !["duration"] = Min90,
         !["listed_in"] = <<"C","o","m","e","d","y">>, !["description"] = <<"d">>]

AllBut(fs) == FieldNames \ fs

B1 == Body(FieldNames, D1)
B2 == Body(AllBut({"director", "cast", "date_added"}), D2)
B3 == Body(AllBut({"country"}), D3)
(* the id of B1 again, padded, with other field values *)
B1dup == Body(FieldNames, [D1 EXCEPT !["show_id"] = <<"s","1"," ">>, !["type"] = TVShow,
                              !["release_year"] = Y2021, !["duration"] = Seasons2])
B4 == Body(FieldNames, [D2 EXCEPT !["type"] = Movie, !["release_year"] = <<"1","9","0","0">>,
                           !["country"] = <<"A",","," ","B",",","C",","," ","D",",","E",",","F",",",
                                             "G",",","H",",","I",",","J",",","K">>,
                           !["duration"] = Min90])
B5 == Body(FieldNames, [D3 EXCEPT !["type"] = TVShow, !["release_year"] = <<"2","0","3","0">>,
                           !["country"] = <<"K",","," ","U","S">>,
                           !["duration"] = Seasons2])
(* a title added later than the others, of an earlier year *)
B7 == Body(FieldNames, [D2 EXCEPT !["date_added"] = <<"2","0","2","2","-","0","3","-","0","1">>])
(* a second title of the year of B1 *)
B6 == Body(FieldNames, [D2 EXCEPT !["release_year"] = Y2020])
ValidBodies == {B1, B2, B3, B1dup, B4, B5}

LongId == [i \in 1..(MaxLenShowId + 1) |-> "x"]
InvalidBodies ==
    { Body(FieldNames, [D1 EXCEPT !["release_year"] = <<"1","8","9","9">>]),
      Body(FieldNames, [D2 EXCEPT !["release_year"] = <<"2","0","3","1">>]),
      Body(FieldNames, [D3 EXCEPT !["release_year"] = <<"x">>]),
      Body(FieldNames, [D1 EXCEPT !["type"] = <<"F","i","l","m">>]),
      Body(AllBut({"description"}), D2),
      Body(AllBut({"show_id"}), D3),
      Body(FieldNames, [D2 EXCEPT !["title"] = None]),
      Body(FieldNames, [D3 EXCEPT !["title"] = <<" ">>]),
      Body(FieldNames, [D2 EXCEPT !["show_id"] = LongId]),
      Body(FieldNames, [D3 EXCEPT !["date_added"] = <<"1","5","/","1">>]) }

CreateBodies == ValidBodies \cup InvalidBodies

(***************************************************************************)
(* CSV files used as inputs of the loader: sequences of rows, or None for  *)
(* a path with no file.                                                    *)
(***************************************************************************)
May5 == <<"m","a","y"," ","5",","," ","2","0","2","1">>
Row3 == [D3 EXCEPT !["country"] = <<>>, !["date_added"] = May5]
RowOld == [D2 EXCEPT !["director"] = <<>>, !["cast"] = <<" ">>, !["date_added"] = <<>>,
                     !["type"] = <<"F","i","l","m">>,
                     !["release_year"] = <<"1","8","0","0">>]
RowBadYear == [Row3 EXCEPT !["release_year"] = <<"n","/","a">>]
RowShort == [Row3 EXCEPT !["show_id"] = S2, !["description"] = None]
RowBadDate == [D1 EXCEPT !["date_added"] = Jan15]

CsvFiles == { <<Row3, RowBadYear, RowOld>>, <<RowBadDate, RowShort>>, <<Row3, Row3>>, None }

(***************************************************************************)
(* Queries of GET /api/titles/search/ used as inputs.                      *)
(***************************************************************************)
NoQuery == [k \in SearchParams |-> None]

YearTexts == { None, <<>>, Y2019, Y2020, <<" ","2","0","2","1">>, <<"x">> }

YearQueries == {[NoQuery EXCEPT !["year_min"] = a, !["year_max"] = b] : a, b \in YearTexts}

FieldQueries ==
    { [NoQuery EXCEPT !["type"] = Movie],
      [NoQuery EXCEPT !["type"] = <<"m","o","v","i","e">>],
      [NoQuery EXCEPT !["rating"] = PG, !["genre"] = <<>>],
      [NoQuery EXCEPT !["country"] = <<"u","s">>],
      [NoQuery EXCEPT !["genre"] = <<"d","R","a">>],
      [NoQuery EXCEPT !["director"] = <<"A","L">>],
      [NoQuery EXCEPT !["cast"] = <<"c","y">>],
      [NoQuery EXCEPT !["title"] = <<"O">>],
      [NoQuery EXCEPT !["type"] = Movie, !["country"] = <<"U","S">>, !["year_min"] = Y2020],
      [NoQuery EXCEPT !["type"] = TVShow, !["year_min"] = <<"x">>] }

SearchQueries == YearQueries \cup FieldQueries

(* stores of many years: one title of each of the n years after FirstYear, oldest
   first, then m more titles of the d-th year after FirstYear, the last of them with
   no date_added *)
FirstYear == 2000
YearTitle(k, year) ==
    [ValidatedTitle(B3) EXCEPT !.show_id = <<"s">> \o IntToText(k), !.release_year = year]
YearStore(n, d, m) ==
    [k \in 1..(n + m) |->
        [YearTitle(k, FirstYear + (IF k <= n THEN k ELSE d))
            EXCEPT !.date_added = IF k = n + 2 THEN None ELSE @]]
YearStores == {YearStore(n, d, m) : n \in 0..MaxYears, d \in 1..MaxYears, m \in 0..2}

(* queries of GET /api/recommendations/ used as inputs, and the years they run in *)
NoRecommendationQuery == [genre |-> None, type |-> None, recent |-> None]
RecommendationQueries ==
    {[genre |-> g, type |-> t, recent |-> r] :
        g \in {None, <<>>, <<"c","o","m">>, <<"z","z">>},
        t \in {None, Movie, TVShow},
        r \in {None, <<"T","r","u","e">>, <<"1">>}}
CurrentYears == {2025}
RecommendationStores ==
    {YearStore(n, d, m) : n \in {0, 1, MaxYears - 2, MaxYears - 1, MaxYears},
                          d \in {1, MaxYears}, m \in 0..2}

(* queries of GET /api/titles/ used as inputs *)
NoListQuery == [type |-> None, rating |-> None, year |-> None]
ListQueries ==
    {[type |-> t, rating |-> r, year |-> y] :
        t \in {None, <<>>, Movie},
        r \in {None, PG},
        y \in {None, <<>>, Y2020, <<" ","2","0","1","9">>, <<"x">>}}

(* instances the helper methods are called on: the columns they read, over a title *)
InstanceTypes == { Movie, TVShow, <<"m","o","v","i","e">> }
InstanceDurations ==
    { Min90, Seasons2, <<"1"," ","S","e","a","s","o","n">>, <<"9","0","m","i","n">>,
      <<" ","1","2","0"," "," ","m","i","n","s">>, <<"m","i","n">>,
      <<"S","e","a","s","o","n"," ","2">>, <<"9","0">>, <<>> }
InstanceGenres ==
    { Drama, <<"A",","," ","B"," ",",","C">>, <<"A",",",",">>, <<>> }
InstanceCasts ==
    { None, <<>>, <<" ">>, <<"X">>, <<" ","X"," ","Y",",","Z"," ">>, <<",","X">> }
Instances ==
    { [ValidatedTitle(B1) EXCEPT !.type = ty, !.duration = d, !.listed_in = g, !.cast = c] :
        ty \in InstanceTypes, d \in InstanceDurations,
        g \in InstanceGenres, c \in InstanceCasts }

(* country names of GET /api/country/<country_name>/ used as inputs *)
CountryPaths == { <<"u","s">>, <<"K">>, <<"Z","Z">> }

(***************************************************************************)
(* State.                                                                  *)
(***************************************************************************)
Creators == {1, 2}

VARIABLES
    store,      \* the rows of the table, in insertion order
    nullsFirst, \* whether the database sorts NULL before the other values in DESC order
    extractChecked, \* whether the installed Django checks the input field of Extract
    cpc,        \* per create handler: "idle", "saving" (validated, before save), "done"
    creq,       \* per create handler: the request body being handled
    cresp,      \* per create handler: the status answered (0: none yet; 500: unhandled exception)
    lpc,        \* the loader: "idle", "loading" (options read, --clear done), "done"
    lopt,       \* the loader's options: clear, file
    lres,       \* the loader's report: outcome, titles loaded, row errors
    rpc,        \* the read handler: "idle", the query it runs next, "done"
    rreq,       \* the read handler's request: view, q (search), name (country lookup),
                \* rec and now (recommendations: the query and the current year),
                \* list (the query of title_list)
    rresp,      \* the read handler's response, as far as it is computed (results also
                \* holds the titles of a country lookup and the recommendations;
                \* payload holds the keys of the body where the view chooses them)
    inst,       \* the NetflixTitle instance the helper methods are called on
    mret        \* per helper method: its outcome on inst, kind "none" before the call

vars == <<store, nullsFirst, extractChecked, cpc, creq, cresp, lpc, lopt, lres, rpc, rreq, rresp,
          inst, mret>>
createVars == <<cpc, creq, cresp>>
loadVars == <<lpc, lopt, lres>>
readVars == <<rpc, rreq, rresp>>
methodVars == <<inst, mret>>

NoBody == Body({}, Blank)
NoOptions == [clear |-> FALSE, file |-> None]
NoReport == [outcome |-> "none", loaded |-> 0, errors |-> 0]
NoRequest == [view |-> "none", q |-> NoQuery, name |-> None,
              rec |-> NoRecommendationQuery, now |-> 0, list |-> NoListQuery]
NoStats == [avg_year |-> None, min_year |-> None, max_year |-> None]
NoResponse ==
    [status |-> 0, payload |-> {},
     count |-> 0, results |-> <<>>,
     total_count |-> 0, type_distribution |-> <<>>, rating_breakdown |-> <<>>,
     content_by_year |-> <<>>, top_countries |-> <<>>, decade_analysis |-> <<>>,
     average_stats |-> NoStats,
     type_breakdown |-> <<>>, average_release_year |-> None]

Methods == {"get_genres", "get_cast_list", "get_duration_minutes", "get_duration_seasons"}
NoInstance == ValidatedTitle(B1)
NoReturns == [m \in Methods |-> Returns("none", 0)]

(* no helper method is under study *)
MethodsIdle == inst = NoInstance /\ mret = NoReturns

HandlersIdle ==
    /\ cpc = [w \in Creators |-> "idle"]
    /\ creq = [w \in Creators |-> NoBody]
    /\ cresp = [w \in Creators |-> 0]
    /\ lpc = "idle"
    /\ lopt = NoOptions
    /\ lres = NoReport
    /\ rpc = "idle"
    /\ rreq = NoRequest
    /\ rresp = NoResponse

InitHandlers == store = <<>> /\ HandlersIdle /\ MethodsIdle

(* the writers never look at the order of rows *)
Init == InitHandlers /\ nullsFirst = FALSE /\ extractChecked = TRUE

InitRead == InitHandlers /\ nullsFirst \in BOOLEAN /\ extractChecked = TRUE

(* statistics: ExtractYear('release_year') of views.py:176 is given an IntegerField;
   Extract.resolve_expression of Django 2.0 and later raises ValueError for an input
   that is no date, time or duration field, earlier versions do not check it *)
InitStats == InitHandlers /\ nullsFirst \in BOOLEAN /\ extractChecked \in BOOLEAN

Saving == {w \in Creators : cpc[w] = "saving"}

(***************************************************************************)
(* title_create (api/views.py).                                            *)
(***************************************************************************)
(* lines 115-117 and 121: build the serializer, is_valid(); invalid -> 400 *)
CreateValidate(w, p) ==
    /\ cpc[w] = "idle"
    /\ is_valid(p, store) => Len(store) + Cardinality(Saving) < MaxStore
    /\ creq' = [creq EXCEPT ![w] = p]
    /\ IF is_valid(p, store)
       THEN /\ cpc' = [cpc EXCEPT ![w] = "saving"]
            /\ cresp' = [cresp EXCEPT ![w] = 0]
       ELSE /\ cpc' = [cpc EXCEPT ![w] = "done"]
            /\ cresp' = [cresp EXCEPT ![w] = 400]
    /\ UNCHANGED <<store, nullsFirst, extractChecked, loadVars, readVars, methodVars>>

(* lines 118-119: serializer.save() is one INSERT; 201, or IntegrityError unhandled *)
CreateSave(w) ==
    /\ cpc[w] = "saving"
    /\ cpc' = [cpc EXCEPT ![w] = "done"]
    /\ IF InsertRaises(store, ValidatedTitle(creq[w]))
       THEN /\ cresp' = [cresp EXCEPT ![w] = 500]
            /\ UNCHANGED store
       ELSE /\ cresp' = [cresp EXCEPT ![w] = 201]
            /\ store' = Append(store, ValidatedTitle(creq[w]))
    /\ UNCHANGED <<creq, nullsFirst, extractChecked, loadVars, readVars, methodVars>>

(* the response is out and the handler takes the next request *)
CreateReturn(w) ==
    /\ cpc[w] = "done"
    /\ cpc' = [cpc EXCEPT ![w] = "idle"]
    /\ creq' = [creq EXCEPT ![w] = NoBody]
    /\ cresp' = [cresp EXCEPT ![w] = 0]
    /\ UNCHANGED <<store, nullsFirst, extractChecked, loadVars, readVars, methodVars>>

(***************************************************************************)
(* Command.handle of load_netflix_data.                                    *)
(***************************************************************************)
(* lines 25-37: read the options; --clear deletes every row, committed at once *)
LoadStart(clear, file) ==
    /\ lpc = "idle"
    /\ lpc' = "loading"
    /\ lopt' = [clear |-> clear, file |-> file]
    /\ store' = IF clear THEN <<>> ELSE store
    /\ UNCHANGED <<lres, nullsFirst, extractChecked, createVars, readVars, methodVars>>

(* lines 42-138: read the file, build the titles, bulk_create them in one transaction;
   a missing file and a refused insert are caught and reported *)
LoadRun ==
    /\ lpc = "loading"
    /\ lpc' = "done"
    /\ IF lopt.file = None
       THEN /\ lres' = [outcome |-> "missing", loaded |-> 0, errors |-> 0]
            /\ UNCHANGED store
       ELSE /\ lres' = IF BulkCreateRaises(store, TitlesToCreate(lopt.file))
                       THEN [outcome |-> "error", loaded |-> 0,
                             errors |-> RowErrors(lopt.file)]
                       ELSE [outcome |-> "loaded",
                             loaded |-> Len(TitlesToCreate(lopt.file)),
                             errors |-> RowErrors(lopt.file)]
            /\ store' = BulkCreate(store, TitlesToCreate(lopt.file))
    /\ UNCHANGED <<lopt, nullsFirst, extractChecked, createVars, readVars, methodVars>>

(* the command has ended *)
LoadReturn ==
    /\ lpc = "done"
    /\ lpc' = "idle"
    /\ lopt' = NoOptions
    /\ lres' = NoReport
    /\ UNCHANGED <<store, nullsFirst, extractChecked, createVars, readVars, methodVars>>

(***************************************************************************)
(* title_search (api/views.py).                                            *)
(***************************************************************************)
(* lines 237-302: read the parameters; 400 on a bad year, else queryset.count() *)
SearchCount(q) ==
    /\ rpc = "idle"
    /\ rreq' = [NoRequest EXCEPT !.view = "search", !.q = q]
    /\ IF SearchRejects(q)
       THEN /\ rpc' = "done"
            /\ rresp' = [NoResponse EXCEPT !.status = 400]
       ELSE /\ rpc' = "search_results"
            /\ rresp' = [NoResponse EXCEPT !.count = Len(SearchRows(q, store))]
    /\ UNCHANGED <<store, nullsFirst, extractChecked, createVars, loadVars, methodVars>>

(* lines 304-309: serializer.data runs the queryset; 200 with count and results *)
SearchResults ==
    /\ rpc = "search_results"
    /\ rpc' = "done"
    /\ \E r \in DefaultOrderings(SearchRows(rreq.q, store), nullsFirst) :
          rresp' = [rresp EXCEPT !.status = 200, !.results = r]
    /\ UNCHANGED <<rreq, store, nullsFirst, extractChecked, createVars, loadVars, methodVars>>

(***************************************************************************)
(* title_list (api/views.py): one query.                                   *)
(***************************************************************************)
(* lines 61-85: 400 for a year that int() refuses; else serializer.data runs the
   filtered queryset and the response is the array of titles *)
ListTitles(q) ==
    /\ rpc = "idle"
    /\ rpc' = "done"
    /\ rreq' = [NoRequest EXCEPT !.view = "list", !.list = q]
    /\ IF ListRejects(q)
       THEN rresp' = [NoResponse EXCEPT !.status = 400, !.payload = {"error"}]
       ELSE \E r \in DefaultOrderings(ListRows(q, store), nullsFirst) :
               rresp' = [NoResponse EXCEPT !.status = 200, !.results = r]
    /\ UNCHANGED <<store, nullsFirst, extractChecked, createVars, loadVars, methodVars>>

(***************************************************************************)
(* statistics (api/views.py): seven queries, in the order they run.        *)
(***************************************************************************)
(* line 145: NetflixTitle.objects.count() *)
StatsCount ==
    /\ rpc = "idle"
    /\ rpc' = "stats_countries"
    /\ rreq' = [NoRequest EXCEPT !.view = "statistics"]
    /\ rresp' = [NoResponse EXCEPT !.total_count = Len(store)]
    /\ UNCHANGED <<store, nullsFirst, extractChecked, createVars, loadVars, methodVars>>

(* lines 164-172: the loop over the titles with a country, in the default ordering *)
StatsCountries ==
    /\ rpc = "stats_countries"
    /\ rpc' = "stats_decades"
    /\ \E r \in DefaultOrderings(CountryRows(store), nullsFirst) :
          rresp' = [rresp EXCEPT !.top_countries = TopCountries(r)]
    /\ UNCHANGED <<rreq, store, nullsFirst, extractChecked, createVars, loadVars, methodVars>>

(* lines 175-190: the per-year counts are annotated and grouped, then looped over *)
StatsDecades ==
    /\ rpc = "stats_decades"
    /\ IF extractChecked
       THEN \* annotate() of line 175 raises ValueError: the view answers 500
            /\ rpc' = "done"
            /\ rresp' = [NoResponse EXCEPT !.status = 500]
       ELSE /\ rpc' = "stats_average"
            /\ rresp' = [rresp EXCEPT !.decade_analysis = DecadeAnalysis(store)]
    /\ UNCHANGED <<rreq, store, nullsFirst, extractChecked, createVars, loadVars, methodVars>>

(* lines 193-197: aggregate() *)
StatsAverage ==
    /\ rpc = "stats_average"
    /\ rpc' = "stats_types"
    /\ rresp' = [rresp EXCEPT !.average_stats = AverageStats(store)]
    /\ UNCHANGED <<rreq, store, nullsFirst, extractChecked, createVars, loadVars, methodVars>>

(* line 201: list(type_distribution) *)
StatsTypes ==
    /\ rpc = "stats_types"
    /\ rpc' = "stats_ratings"
    /\ \E d \in Distributions(store, "type") : rresp' = [rresp EXCEPT !.type_distribution = d]
    /\ UNCHANGED <<rreq, store, nullsFirst, extractChecked, createVars, loadVars, methodVars>>

(* line 202: list(rating_breakdown) *)
StatsRatings ==
    /\ rpc = "stats_ratings"
    /\ rpc' = "stats_years"
    /\ \E d \in Distributions(store, "rating") : rresp' = [rresp EXCEPT !.rating_breakdown = d]
    /\ UNCHANGED <<rreq, store, nullsFirst, extractChecked, createVars, loadVars, methodVars>>

(* lines 203-207: list(content_by_year)[:20], and the response *)
StatsYears ==
    /\ rpc = "stats_years"
    /\ rpc' = "done"
    /\ rresp' = [rresp EXCEPT !.status = 200, !.content_by_year = ContentByYear(store)]
    /\ UNCHANGED <<rreq, store, nullsFirst, extractChecked, createVars, loadVars, methodVars>>

(***************************************************************************)
(* country_titles (api/views.py): five queries, in the order they run.     *)
(***************************************************************************)
(* lines 337-343: queryset.exists(); 404 when no title matches *)
CountryExists(name) ==
    /\ rpc = "idle"
    /\ rreq' = [NoRequest EXCEPT !.view = "country", !.name = name]
    /\ IF CountryMatches(name, store) = <<>>
       THEN /\ rpc' = "done"
            /\ rresp' = [NoResponse EXCEPT !.status = 404]
       ELSE /\ rpc' = "country_count"
            /\ rresp' = NoResponse
    /\ UNCHANGED <<store, nullsFirst, extractChecked, createVars, loadVars, methodVars>>

(* line 346: queryset.count() *)
CountryCount ==
    /\ rpc = "country_count"
    /\ rpc' = "country_average"
    /\ rresp' = [rresp EXCEPT !.count = Len(CountryMatches(rreq.name, store))]
    /\ UNCHANGED <<rreq, store, nullsFirst, extractChecked, createVars, loadVars, methodVars>>

(* line 348: queryset.aggregate(Avg('release_year')) *)
CountryAverage ==
    /\ rpc = "country_average"
    /\ rpc' = "country_types"
    /\ rresp' = [rresp EXCEPT !.average_release_year = AverageYear(CountryMatches(rreq.name, store))]
    /\ UNCHANGED <<rreq, store, nullsFirst, extractChecked, createVars, loadVars, methodVars>>

(* line 356: list(type_breakdown) *)
CountryTypes ==
    /\ rpc = "country_types"
    /\ rpc' = "country_titles"
    /\ \E d \in TypeBreakdowns(CountryMatches(rreq.name, store)) :
          rresp' = [rresp EXCEPT !.type_breakdown = d]
    /\ UNCHANGED <<rreq, store, nullsFirst, extractChecked, createVars, loadVars, methodVars>>

(* lines 350-360: serializer.data runs the queryset; the response *)
CountryTitles ==
    /\ rpc = "country_titles"
    /\ rpc' = "done"
    /\ \E r \in DefaultOrderings(CountryMatches(rreq.name, store), nullsFirst) :
          rresp' = [rresp EXCEPT !.status = 200, !.results = r]
    /\ UNCHANGED <<rreq, store, nullsFirst, extractChecked, createVars, loadVars, methodVars>>

(***************************************************************************)
(* recommendations (api/views.py): two queries, in the order they run.     *)
(***************************************************************************)
(* lines 388-417: 400 without a genre; queryset.exists(), and the message when no
   title matches *)
RecommendationsExists(q, now) ==
    /\ rpc = "idle"
    /\ rreq' = [NoRequest EXCEPT !.view = "recommendations", !.rec = q, !.now = now]
    /\ IF RecommendationsRejects(q)
       THEN /\ rpc' = "done"
            /\ rresp' = [NoResponse EXCEPT !.status = 400, !.payload = {"error"}]
       ELSE IF RecommendationRows(q, now, store) = {}
       THEN /\ rpc' = "done"
            /\ rresp' = [NoResponse EXCEPT !.status = 200, !.payload = {"message"}]
       ELSE /\ rpc' = "recommendations_rows"
            /\ rresp' = NoResponse
    /\ UNCHANGED <<store, nullsFirst, extractChecked, createVars, loadVars, methodVars>>

(* lines 419-425: serializer.data runs the ordered, sliced queryset; the response *)
RecommendationsRows ==
    /\ rpc = "recommendations_rows"
    /\ rpc' = "done"
    /\ \E r \in RecommendationPages(RecommendationRows(rreq.rec, rreq.now, store), nullsFirst) :
          rresp' = [rresp EXCEPT !.status = 200,
                                 !.payload = {"genre", "count", "recommendations"},
                                 !.count = Len(r), !.results = r]
    /\ UNCHANGED <<rreq, store, nullsFirst, extractChecked, createVars, loadVars, methodVars>>

(* the response is out and the handler takes the next request *)
ReadReturn ==
    /\ rpc = "done"
    /\ rpc' = "idle"
    /\ rreq' = NoRequest
    /\ rresp' = NoResponse
    /\ UNCHANGED <<store, nullsFirst, extractChecked, createVars, loadVars, methodVars>>

(***************************************************************************)
(* Specifications.  Spec runs the create handlers against each other;      *)
(* SpecLoad runs the loader against one create handler; SpecSearch,        *)
(* SpecStats and SpecCountry run one read view against one create handler. *)
(***************************************************************************)
Next ==
    \/ \E w \in Creators, p \in CreateBodies : CreateValidate(w, p)
    \/ \E w \in Creators : CreateSave(w)
    \/ \E w \in Creators : CreateReturn(w)

Spec == Init /\ [][Next]_vars

NextLoad ==
    \/ \E clear \in BOOLEAN, file \in CsvFiles : LoadStart(clear, file)
    \/ LoadRun
    \/ LoadReturn
    \/ \E p \in CreateBodies : CreateValidate(1, p)
    \/ CreateSave(1)
    \/ CreateReturn(1)

SpecLoad == Init /\ [][NextLoad]_vars

(* the titles the create handler stores while searches run *)
SearchBodies == {B1, B2, B3}

NextSearch ==
    \/ \E q \in SearchQueries : SearchCount(q)
    \/ SearchResults
    \/ ReadReturn
    \/ \E p \in SearchBodies : CreateValidate(1, p)
    \/ CreateSave(1)
    \/ CreateReturn(1)

SpecSearch == InitRead /\ [][NextSearch]_vars

(* the titles the create handler stores while statistics run *)
StatsBodies == {B1, B3, B4, B5, B6}

NextStats ==
    \/ StatsCount
    \/ StatsCountries
    \/ StatsDecades
    \/ StatsAverage
    \/ StatsTypes
    \/ StatsRatings
    \/ StatsYears
    \/ ReadReturn
    \/ \E p \in StatsBodies : CreateValidate(1, p)
    \/ CreateSave(1)
    \/ CreateReturn(1)

SpecStats == InitStats /\ [][NextStats]_vars

(* statistics over a store of many years, as a bulk load leaves it *)
InitYears ==
    /\ HandlersIdle /\ MethodsIdle
    /\ store \in YearStores
    /\ nullsFirst \in BOOLEAN
    /\ extractChecked \in BOOLEAN

NextYears ==
    \/ StatsCount
    \/ StatsCountries
    \/ StatsDecades
    \/ StatsAverage
    \/ StatsTypes
    \/ StatsRatings
    \/ StatsYears
    \/ ReadReturn

SpecYears == InitYears /\ [][NextYears]_vars

(* recommendations over the stores a bulk load leaves, one create handler running *)
RecommendationBodies == {B2}

InitRecommendations ==
    /\ HandlersIdle /\ MethodsIdle
    /\ store \in RecommendationStores
    /\ nullsFirst \in BOOLEAN
    /\ extractChecked = TRUE

NextRecommendations ==
    \/ \E q \in RecommendationQueries, now \in CurrentYears : RecommendationsExists(q, now)
    \/ RecommendationsRows
    \/ ReadReturn
    \/ \E p \in RecommendationBodies : CreateValidate(1, p)
    \/ CreateSave(1)
    \/ CreateReturn(1)

SpecRecommendations == InitRecommendations /\ [][NextRecommendations]_vars

NextList ==
    \/ \E q \in ListQueries : ListTitles(q)
    \/ ReadReturn
    \/ \E p \in SearchBodies : CreateValidate(1, p)
    \/ CreateSave(1)
    \/ CreateReturn(1)

SpecList == InitRead /\ [][NextList]_vars

(* titles of different dates, of one date and different years, and without a date *)
OrderBodies == {B1, B2, B5, B7}

NextOrder ==
    \/ \E q \in {NoListQuery, [NoListQuery EXCEPT !.year = <<"x">>]} : ListTitles(q)
    \/ \E q \in {NoQuery, [NoQuery EXCEPT !["year_min"] = <<"x">>]} : SearchCount(q)
    \/ SearchResults
    \/ ReadReturn
    \/ \E p \in OrderBodies : CreateValidate(1, p)
    \/ CreateSave(1)
    \/ CreateReturn(1)

SpecOrder == InitRead /\ [][NextOrder]_vars

NextCountry ==
    \/ \E name \in CountryPaths : CountryExists(name)
    \/ CountryCount
    \/ CountryAverage
    \/ CountryTypes
    \/ CountryTitles
    \/ ReadReturn
    \/ \E p \in SearchBodies : CreateValidate(1, p)
    \/ CreateSave(1)
    \/ CreateReturn(1)

SpecCountry == InitRead /\ [][NextCountry]_vars

(***************************************************************************)
(* The helper methods of NetflixTitle, called on one instance after         *)
(* another as the model tests do (api/tests.py, NetflixTitleModelTest).     *)
(***************************************************************************)
InitMethods ==
    /\ store = <<>> /\ HandlersIdle
    /\ nullsFirst = FALSE /\ extractChecked = TRUE
    /\ inst \in Instances
    /\ mret = NoReturns

MethodFrame == UNCHANGED <<inst, store, nullsFirst, extractChecked, createVars, loadVars, readVars>>

Call_get_genres ==
    /\ mret["get_genres"].kind = "none"
    /\ mret' = [mret EXCEPT !["get_genres"] = get_genres(inst)]
    /\ MethodFrame

Call_get_cast_list ==
    /\ mret["get_cast_list"].kind = "none"
    /\ mret' = [mret EXCEPT !["get_cast_list"] = get_cast_list(inst)]
    /\ MethodFrame

Call_get_duration_minutes ==
    /\ mret["get_duration_minutes"].kind = "none"
    /\ mret' = [mret EXCEPT !["get_duration_minutes"] = get_duration_minutes(inst)]
    /\ MethodFrame

Call_get_duration_seasons ==
    /\ mret["get_duration_seasons"].kind = "none"
    /\ mret' = [mret EXCEPT !["get_duration_seasons"] = get_duration_seasons(inst)]
    /\ MethodFrame

(* the next instance *)
NextInstance(t) ==
    /\ \A m \in Methods : mret[m].kind # "none"
    /\ inst' = t
    /\ mret' = NoReturns
    /\ UNCHANGED <<store, nullsFirst, extractChecked, createVars, loadVars, readVars>>

NextMethods ==
    \/ Call_get_genres
    \/ Call_get_cast_list
    \/ Call_get_duration_minutes
    \/ Call_get_duration_seasons
    \/ \E t \in Instances : NextInstance(t)

SpecMethods == InitMethods /\ [][NextMethods]_vars

(***************************************************************************)
(* Properties of title_create.                                             *)
(***************************************************************************)
(* handler w takes a request in this step: is_valid() runs on creq'[w] *)
CreateValidates(w) == cpc[w] = "idle" /\ cpc'[w] # "idle"
(* handler w runs save() in this step *)
CreateSaves(w) == cpc[w] = "saving" /\ cpc'[w] = "done"

CarriesStoredId(p, rows) ==
    /\ Given(p, "show_id")
    /\ \E i \in 1..Len(rows) : rows[i].show_id = Strip(p.data["show_id"])

(* C1: a create request whose show_id is the id of a stored record is answered 400
   in the step that validates it, and that step leaves the store as it was: the same
   rows, the stored record's fields untouched. *)
C1_DuplicateIdRejected ==
    [][\A w \in Creators :
        (CreateValidates(w) /\ CarriesStoredId(creq'[w], store))
            => (cpc'[w] = "done" /\ cresp'[w] = 400 /\ store' = store)]_vars

(* a valid request with a stored id and other field values was answered 400, and the
   stored record still differs from the request's *)
C1_Witness ==
    \E w \in Creators :
        /\ cpc[w] = "done" /\ cresp[w] = 400
        /\ FieldsValid(creq[w])
        /\ \E i \in 1..Len(store) :
              /\ store[i].show_id = Strip(creq[w].data["show_id"])
              /\ store[i].type # creq[w].data["type"]

(* C2: in every reachable state no two stored records have the same show_id, however
   the uniqueness checks and the inserts of concurrent create requests interleave. *)
C2_IdsUnique == UniqueIds(store)

(* two requests with one id both passed is_valid(); one was stored, the other's
   insert was refused *)
C2_Witness ==
    \E w1, w2 \in Creators :
        /\ w1 # w2
        /\ cpc[w1] = "done" /\ cresp[w1] = 201
        /\ cpc[w2] = "done" /\ cresp[w2] = 500
        /\ Strip(creq[w1].data["show_id"]) = Strip(creq[w2].data["show_id"])

(* the conditions of claim C3, stated on the request body *)
YearOf(p) == IntOf(p.data["release_year"])
C3_YearOutOfRange(p) ==
    Given(p, "release_year")
        /\ (~ParsesAsInt(p.data["release_year"]) \/ YearOf(p) < 1900 \/ YearOf(p) > 2030)
C3_KindNotAllowed(p) == Given(p, "type") /\ p.data["type"] \notin {Movie, TVShow}
C3_Lacks(p, f) == f \notin p.has \/ p.data[f] = None \/ Strip(p.data[f]) = <<>>
C3_LacksRequired(p) ==
    \E f \in {"show_id", "type", "title", "release_year", "duration", "listed_in",
              "description"} : C3_Lacks(p, f)
C3_Named(p) == C3_YearOutOfRange(p) \/ C3_KindNotAllowed(p) \/ C3_LacksRequired(p)
C3_TooLong(p, f, n) == Given(p, f) /\ Len(Strip(p.data[f])) > n
C3_Malformed(p) ==
    \/ Given(p, "date_added") /\ ~ParsesAsIsoDate(p.data["date_added"])
    \/ C3_TooLong(p, "show_id", 20) \/ C3_TooLong(p, "title", 250)
    \/ C3_TooLong(p, "director", 250) \/ C3_TooLong(p, "country", 150)
    \/ C3_TooLong(p, "rating", 10) \/ C3_TooLong(p, "duration", 20)
C3_Fresh(p, rows) == ~CarriesStoredId(p, rows)

(* C3 as claimed: a request named by the claim (releaseYear no integer of
   [1900, 2030], kind not allowed, a required field absent, null or blank) is answered
   400 and stores nothing; every other request with a fresh id is answered 201 and
   adds its record. *)
C3_AsClaimed ==
    [][\A w \in Creators :
        /\ (CreateValidates(w) /\ C3_Named(creq'[w]))
              => (cresp'[w] = 400 /\ store' = store)
        /\ (CreateValidates(w) /\ ~C3_Named(creq'[w]) /\ C3_Fresh(creq'[w], store))
              => (cpc'[w] = "saving" /\ store' = store)
        /\ (CreateSaves(w) /\ C3_Fresh(creq[w], store))
              => (cresp'[w] = 201 /\ store' = Append(store, ValidatedTitle(creq[w])))]_vars

(* C3, amended: a request named by the claim, or with a dateAdded that is no
   YYYY-MM-DD date or a text longer than its field allows, is
   answered 400 and stores nothing; every other request whose id is not stored, when
   it is validated and when it is inserted, is answered 201 and adds exactly its record. *)
C3_CreateValidated ==
    [][\A w \in Creators :
        /\ (CreateValidates(w) /\ (C3_Named(creq'[w]) \/ C3_Malformed(creq'[w])))
              => (cpc'[w] = "done" /\ cresp'[w] = 400 /\ store' = store)
        /\ (CreateValidates(w) /\ ~C3_Named(creq'[w]) /\ ~C3_Malformed(creq'[w])
                /\ C3_Fresh(creq'[w], store))
              => (cpc'[w] = "saving" /\ store' = store)
        /\ (CreateSaves(w) /\ C3_Fresh(creq[w], store))
              => (cresp'[w] = 201 /\ store' = Append(store, ValidatedTitle(creq[w])))]_vars

(* one request was answered 201 and its record is stored last, another was answered
   400 for its release year *)
C3_Witness ==
    \E w1, w2 \in Creators :
        /\ cpc[w1] = "done" /\ cresp[w1] = 201
        /\ store # <<>> /\ store[Len(store)] = ValidatedTitle(creq[w1])
        /\ cpc[w2] = "done" /\ cresp[w2] = 400 /\ C3_YearOutOfRange(creq[w2])

(***************************************************************************)
(* Properties of the stored records.                                       *)
(***************************************************************************)
FullyValid(title) ==
    /\ 1900 <= title.release_year /\ title.release_year <= 2030
    /\ title.type \in {Movie, TVShow}

(* C4: every stored record has 1900 <= release_year <= 2030 and type Movie or
   TV Show, whichever of create and bulk load inserted it. *)
C4_StoredRecordsValid == \A i \in 1..Len(store) : FullyValid(store[i])

(***************************************************************************)
(* Properties of title_search.                                             *)
(***************************************************************************)
(* the handler takes a search request in this step: it answers 400 or counts *)
SearchStarts == rpc = "idle" /\ rpc' # "idle" /\ rreq'.view = "search"
(* the handler fetches the results and answers in this step *)
SearchAnswers == rpc = "search_results" /\ rpc' = "done"

RowSet(rows) == {rows[i] : i \in 1..Len(rows)}

(* r lists exactly the rows of S, each once *)
ListsExactly(r, S) == RowSet(r) = S /\ Len(r) = Cardinality(S)

Present(q, k) == q[k] # None /\ q[k] # <<>>

(* x occurs in field, letter case aside *)
SubstringNoCase(x, field) ==
    /\ field # None
    /\ \E i \in 1..(Len(field) + 1) : \E j \in (i - 1)..Len(field) :
          Lower(SubSeq(field, i, j)) = Lower(x)

C5_Satisfies(q, t) ==
    /\ Present(q, "type") => t.type = q["type"]
    /\ Present(q, "rating") => t.rating = q["rating"]
    /\ Present(q, "country") => SubstringNoCase(q["country"], t.country)
    /\ Present(q, "genre") => SubstringNoCase(q["genre"], t.listed_in)
    /\ Present(q, "director") => SubstringNoCase(q["director"], t.director)
    /\ Present(q, "cast") => SubstringNoCase(q["cast"], t.cast)
    /\ Present(q, "title") => SubstringNoCase(q["title"], t.title)
    /\ Present(q, "year_min") => t.release_year >= IntOf(q["year_min"])
    /\ Present(q, "year_max") => t.release_year <= IntOf(q["year_max"])

C5_Expected(q, rows) == {t \in RowSet(rows) : C5_Satisfies(q, t)}

(* C5: the count of a search is the number of stored records that satisfy every
   present, non-empty parameter, and its results are exactly those records, each as
   the store holds it when the query runs; with no parameter that is every record and
   the size of the store. *)
C5_SearchIsConjunction ==
    [][/\ (SearchStarts /\ rpc' = "search_results")
              => /\ rresp'.count = Cardinality(C5_Expected(rreq'.q, store))
                 /\ (\A k \in SearchParams : ~Present(rreq'.q, k)) => rresp'.count = Len(store)
       /\ SearchAnswers
              => /\ rresp'.status = 200
                 /\ ListsExactly(rresp'.results, C5_Expected(rreq.q, store))
                 /\ (\A k \in SearchParams : ~Present(rreq.q, k))
                        => ListsExactly(rresp'.results, RowSet(store))]_vars

(* a search on type, country and year_min returned some stored records and left out
   others *)
C5_Witness ==
    /\ rpc = "done" /\ rreq.view = "search" /\ rresp.status = 200
    /\ Present(rreq.q, "type") /\ Present(rreq.q, "country") /\ Present(rreq.q, "year_min")
    /\ rresp.results # <<>>
    /\ Len(rresp.results) < Len(store)
    /\ rresp.count = Len(rresp.results)

YearsOnly(q) == \A k \in SearchParams \ {"year_min", "year_max"} : ~Present(q, k)

(* C6: of a search with year bounds only, the results are all and only the stored
   records with a <= release_year <= b when year_min = a and year_max = b, with
   release_year >= a when only year_min = a is given, and with release_year <= b
   when only year_max = b is given. *)
C6_YearRangeInclusive ==
    [][(SearchAnswers /\ YearsOnly(rreq.q))
          => \A a, b \in 2018..2022 :
                /\ (Present(rreq.q, "year_min") /\ IntOf(rreq.q["year_min"]) = a
                       /\ Present(rreq.q, "year_max") /\ IntOf(rreq.q["year_max"]) = b)
                     => ListsExactly(rresp'.results,
                           {t \in RowSet(store) : a <= t.release_year /\ t.release_year <= b})
                /\ (Present(rreq.q, "year_min") /\ IntOf(rreq.q["year_min"]) = a
                       /\ ~Present(rreq.q, "year_max"))
                     => ListsExactly(rresp'.results,
                           {t \in RowSet(store) : a <= t.release_year})
                /\ (~Present(rreq.q, "year_min")
                       /\ Present(rreq.q, "year_max") /\ IntOf(rreq.q["year_max"]) = b)
                     => ListsExactly(rresp'.results,
                           {t \in RowSet(store) : t.release_year <= b})]_vars

(* a search with year_min = year_max = 2020 returned the records of 2020 and left
   out one of 2019 *)
C6_Witness ==
    /\ rpc = "done" /\ rreq.view = "search" /\ rresp.status = 200
    /\ rreq.q["year_min"] = Y2020 /\ rreq.q["year_max"] = Y2020
    /\ Len(rresp.results) = 2
    /\ \E i \in 1..Len(store) : store[i].release_year = 2019

Unparsable(x) == ~ParsesAsInt(x)

(* C7 as claimed: a present year_min (or year_max) that does not parse as an integer
   yields 400, whatever the other one. *)
C7_AsClaimed ==
    [][SearchStarts =>
          /\ (rreq'.q["year_min"] # None /\ Unparsable(rreq'.q["year_min"])) => rresp'.status = 400
          /\ (rreq'.q["year_max"] # None /\ Unparsable(rreq'.q["year_max"])) => rresp'.status = 400]_vars

(* C7, amended: a present, non-empty year_min that does not parse as an integer yields
   400 with no result list, whatever year_max, and so does such a year_max, whatever
   year_min; a search whose year parameters are absent, empty or integers is not
   answered 400 for them: it goes on to its queries and is answered 200. *)
C7_BadYearRejected ==
    [][/\ SearchStarts =>
          /\ (Present(rreq'.q, "year_min") /\ Unparsable(rreq'.q["year_min"]))
                => (rpc' = "done" /\ rresp'.status = 400 /\ rresp'.results = <<>>)
          /\ (Present(rreq'.q, "year_max") /\ Unparsable(rreq'.q["year_max"]))
                => (rpc' = "done" /\ rresp'.status = 400 /\ rresp'.results = <<>>)
          /\ (\A k \in {"year_min", "year_max"} :
                  ~Present(rreq'.q, k) \/ ~Unparsable(rreq'.q[k]))
                => (rpc' = "search_results" /\ rresp'.status # 400)
       /\ SearchAnswers => rresp'.status = 200]_vars

(* a search with an unparsable year_max and the integer year_min 2020 was answered 400 *)
C7_Witness ==
    /\ rpc = "done" /\ rreq.view = "search" /\ rresp.status = 400
    /\ rreq.q["year_min"] = Y2020 /\ rreq.q["year_max"] = <<"x">>
    /\ store # <<>>

(***************************************************************************)
(* Properties of statistics.                                               *)
(***************************************************************************)
StatsAnswered == rpc = "done" /\ rreq.view = "statistics" /\ rresp.status = 200

RECURSIVE SumOfCounts(_)
SumOfCounts(d) == IF d = <<>> THEN 0 ELSE Head(d).count + SumOfCounts(Tail(d))

(* the store as total_count counted it: the create handler only appends *)
CountedStore == SubSeq(store, 1, rresp.total_count)

(* C8: in every statistics response, total_count is the sum of the counts of the
   type_distribution entries, and type_distribution has exactly one entry for each
   kind that occurs in the store the response counts. *)
C8_TotalIsSumOfKinds ==
    StatsAnswered =>
        /\ rresp.total_count = SumOfCounts(rresp.type_distribution)
        /\ \A i, j \in 1..Len(rresp.type_distribution) :
              rresp.type_distribution[i].key = rresp.type_distribution[j].key => i = j
        /\ {rresp.type_distribution[i].key : i \in 1..Len(rresp.type_distribution)}
              = {CountedStore[i].type : i \in 1..Len(CountedStore)}

(* the tokens of one record: its country split at commas, each token trimmed; a
   record with no country or an empty one has none *)
C10_Tokens(t) ==
    IF t.country = None \/ t.country = <<>> THEN <<>>
    ELSE [k \in 1..Len(Split(t.country, ",")) |-> Strip(Split(t.country, ",")[k])]

RECURSIVE C10_Count(_, _)
C10_Count(c, rows) ==
    IF rows = <<>> THEN 0
    ELSE Cardinality({k \in 1..Len(C10_Tokens(Head(rows))) : C10_Tokens(Head(rows))[k] = c})
         + C10_Count(c, Tail(rows))

C10_Countries(rows) ==
    UNION {{C10_Tokens(rows[i])[k] : k \in 1..Len(C10_Tokens(rows[i]))} : i \in 1..Len(rows)}

C10_Included(tc) == {tc[i].country : i \in 1..Len(tc)}

StatsCountsCountries == rpc = "stats_countries" /\ rpc' = "stats_decades"

(* C10: the count statistics report for a country is the number of trimmed,
   comma-separated tokens equal to it over the country fields of the stored records;
   top_countries has at most 10 entries, in non-increasing order of count, and no
   country left out has a greater count than one included. *)
C10_TopCountries ==
    [][StatsCountsCountries =>
          LET tc == rresp'.top_countries IN
          /\ Len(tc) <= 10
          /\ \A i \in 1..Len(tc) : tc[i].count = C10_Count(tc[i].country, store)
          /\ \A i \in 1..(Len(tc) - 1) : tc[i].count >= tc[i + 1].count
          /\ \A c \in C10_Countries(store) \ C10_Included(tc) :
                \A i \in 1..Len(tc) : C10_Count(c, store) <= tc[i].count]_vars

(* statistics counted the countries of a store with more than ten of them, two of
   them named by two records: ten are reported, the two first, and one is left out *)
C10_Witness ==
    /\ rpc = "stats_decades"
    /\ Len(rresp.top_countries) = 10
    /\ rresp.top_countries[2].count = 2
    /\ rresp.top_countries[3].count = 1
    /\ Cardinality(C10_Countries(store)) > 10
    /\ \A i \in 1..10 :
          rresp.top_countries[i].count = C10_Count(rresp.top_countries[i].country, store)

(***************************************************************************)
(* Properties of the read views under concurrent creates.                  *)
(***************************************************************************)
(* the create handler only appends, so the states the store has been in are the
   prefixes of the store *)
PastStores == {SubSeq(store, 1, n) : n \in 0..Len(store)}

SearchFrom(s) ==
    /\ rresp.count = Len(SearchRows(rreq.q, s))
    /\ ListsExactly(rresp.results, RowSet(SearchRows(rreq.q, s)))

StatisticsFrom(s) ==
    /\ rresp.total_count = Len(s)
    /\ rresp.type_distribution \in Distributions(s, "type")
    /\ rresp.rating_breakdown \in Distributions(s, "rating")
    /\ rresp.content_by_year = ContentByYear(s)
    /\ \E r \in DefaultOrderings(CountryRows(s), nullsFirst) :
          rresp.top_countries = TopCountries(r)
    /\ rresp.decade_analysis = DecadeAnalysis(s)
    /\ rresp.average_stats = AverageStats(s)

CountryFrom(s) ==
    /\ rresp.count = Len(CountryMatches(rreq.name, s))
    /\ rresp.type_breakdown \in TypeBreakdowns(CountryMatches(rreq.name, s))
    /\ ListsExactly(rresp.results, RowSet(CountryMatches(rreq.name, s)))

(* C9: every part of the response of a search, of statistics and of a country lookup
   is computed from one and the same state of the store, creates running meanwhile;
   so a search's count is the length of its results. *)
C9_OneSnapshot ==
    (rpc = "done" /\ rresp.status = 200) =>
        /\ rreq.view = "search" =>
              /\ rresp.count = Len(rresp.results)
              /\ \E s \in PastStores : SearchFrom(s)
        /\ rreq.view = "statistics" => \E s \in PastStores : StatisticsFrom(s)
        /\ rreq.view = "country" => \E s \in PastStores : CountryFrom(s)

(***************************************************************************)
(* Properties of statistics: ranking, decades, distributions.              *)
(***************************************************************************)
(* the position in the store, which is the order of insertion, of the first record
   that names country c *)
C11_FirstInserted(c, rows) ==
    CHOOSE i \in 1..Len(rows) :
        /\ C10_Count(c, <<rows[i]>>) > 0
        /\ \A j \in 1..(i - 1) : C10_Count(c, <<rows[j]>>) = 0

(* C11: the counts of the country ranking are those of the stored records in whatever
   order they were inserted, and among countries with equal counts the one whose first
   record was inserted earlier is listed first, and is the one that stays when the
   list is cut at 10. *)
C11_TiesByInsertion ==
    [][StatsCountsCountries =>
          LET tc == rresp'.top_countries IN
          /\ \A i \in 1..Len(tc) : tc[i].count = C10_Count(tc[i].country, store)
          /\ \A i, j \in 1..Len(tc) :
                (i < j /\ tc[i].count = tc[j].count)
                   => C11_FirstInserted(tc[i].country, store)
                         <= C11_FirstInserted(tc[j].country, store)
          /\ \A c \in C10_Countries(store) \ C10_Included(tc) :
                \A i \in 1..Len(tc) :
                   tc[i].count = C10_Count(c, store)
                      => C11_FirstInserted(tc[i].country, store)
                            <= C11_FirstInserted(c, store)]_vars

C12_Decades(rows) == {(rows[i].release_year \div 10) * 10 : i \in 1..Len(rows)}

C12_InDecade(d, rows) ==
    Cardinality({i \in 1..Len(rows) : (rows[i].release_year \div 10) * 10 = d})

C12_Label(d) == IntToText(d) \o <<"s">>

(* C12: in every statistics response, decade_analysis has exactly one bucket for each
   decade floor(year / 10) * 10 of a stored record, labelled "<decade>s" and counting
   the stored records of that decade, the buckets come by strictly descending decade,
   and their counts sum to total_count. *)
C12_DecadeBuckets ==
    StatsAnswered =>
        LET da == rresp.decade_analysis
            ds == C12_Decades(CountedStore)
        IN  /\ Len(da) = Cardinality(ds)
            /\ \A d \in ds :
                  \E i \in 1..Len(da) :
                     /\ da[i].decade = C12_Label(d)
                     /\ da[i].count = C12_InDecade(d, CountedStore)
                     /\ \A e \in ds :
                           e < d => \E j \in (i + 1)..Len(da) : da[j].decade = C12_Label(e)
            /\ SumOfCounts(da) = rresp.total_count

C13_Values(rows, f) == {rows[i][f] : i \in 1..Len(rows)}

(* d has exactly one entry for each value of field f in rows, with the number of rows
   that have the value *)
C13_OnePerValue(d, rows, f) ==
    /\ Len(d) = Cardinality(C13_Values(rows, f))
    /\ \A v \in C13_Values(rows, f) :
          \E i \in 1..Len(d) :
             /\ d[i].key = v
             /\ d[i].count = Cardinality({k \in 1..Len(rows) : rows[k][f] = v})

C13_CountDescending(d) == \A i \in 1..(Len(d) - 1) : d[i].count >= d[i + 1].count

StatsListsTypes == rpc = "stats_types" /\ rpc' = "stats_ratings"
StatsListsRatings == rpc = "stats_ratings" /\ rpc' = "stats_years"
StatsListsYears == rpc = "stats_years" /\ rpc' = "done"

(* C13 as claimed: the type, rating and year distributions of statistics each have one
   entry per distinct value, with the number of records of that value, by descending
   count. *)
C13_AsClaimed ==
    [][/\ StatsListsTypes =>
             /\ C13_OnePerValue(rresp'.type_distribution, store, "type")
             /\ C13_CountDescending(rresp'.type_distribution)
       /\ StatsListsRatings =>
             /\ C13_OnePerValue(rresp'.rating_breakdown, store, "rating")
             /\ C13_CountDescending(rresp'.rating_breakdown)
       /\ StatsListsYears =>
             /\ C13_OnePerValue(rresp'.content_by_year, store, "release_year")
             /\ C13_CountDescending(rresp'.content_by_year)]_vars

(* C13, amended: the type and rating distributions each have one entry per distinct
   value, with the number of records of that value, by descending count; the year
   distribution has one such entry per distinct year (of a store with at most 20 of
   them), by strictly descending year. *)
C13_Distributions ==
    [][/\ StatsListsTypes =>
             /\ C13_OnePerValue(rresp'.type_distribution, store, "type")
             /\ C13_CountDescending(rresp'.type_distribution)
       /\ StatsListsRatings =>
             /\ C13_OnePerValue(rresp'.rating_breakdown, store, "rating")
             /\ C13_CountDescending(rresp'.rating_breakdown)
       /\ (StatsListsYears /\ Cardinality(C13_Values(store, "release_year")) <= 20) =>
             /\ C13_OnePerValue(rresp'.content_by_year, store, "release_year")
             /\ \A i \in 1..(Len(rresp'.content_by_year) - 1) :
                   rresp'.content_by_year[i].key > rresp'.content_by_year[i + 1].key]_vars

(* statistics answered with two kinds and two ratings of unequal counts and with the
   later year the rarer one *)
C13_Witness ==
    /\ StatsAnswered
    /\ Len(rresp.type_distribution) = 2
    /\ rresp.type_distribution[1].count = 2 /\ rresp.type_distribution[2].count = 1
    /\ Len(rresp.rating_breakdown) = 2
    /\ rresp.rating_breakdown[1].count = 2 /\ rresp.rating_breakdown[2].count = 1
    /\ Len(rresp.content_by_year) = 2
    /\ rresp.content_by_year[1].count = 1 /\ rresp.content_by_year[2].count = 2

C14_Years(rows) == {rows[i].release_year : i \in 1..Len(rows)}

(* the years of rows with fewer than 20 greater years of rows *)
C14_Latest(rows) ==
    {y \in C14_Years(rows) : Cardinality({z \in C14_Years(rows) : z > y}) < 20}

(* C14: content_by_year of statistics has one entry, with the number of records of
   that year, for each of the min(20, n) greatest of the n distinct release years of
   the store, and no other entry. *)
C14_LatestTwentyYears ==
    [][StatsListsYears =>
          LET cy == rresp'.content_by_year IN
          /\ Len(cy) = (IF Cardinality(C14_Years(store)) < 20
                        THEN Cardinality(C14_Years(store)) ELSE 20)
          /\ \A i \in 1..Len(cy) : cy[i].key \in C14_Latest(store)
          /\ \A y \in C14_Latest(store) :
                \E i \in 1..Len(cy) :
                   /\ cy[i].key = y
                   /\ cy[i].count = Cardinality({k \in 1..Len(store) : store[k].release_year = y})
                   /\ \A j \in 1..Len(cy) : cy[j].key = y => j = i]_vars

(* statistics answered over a store of more than 20 years: 20 entries, the oldest
   years of the store not among them, one entry counting three records *)
C14_Witness ==
    /\ StatsAnswered
    /\ Cardinality(C14_Years(store)) > 20
    /\ Len(rresp.content_by_year) = 20
    /\ \E i \in 1..20 : rresp.content_by_year[i].count = 3
    /\ \A i \in 1..20 : rresp.content_by_year[i].key > FirstYear + 1

(***************************************************************************)
(* Properties of country_titles.                                           *)
(***************************************************************************)
CountryStarts == rpc = "idle" /\ rpc' # "idle" /\ rreq'.view = "country"
CountryAnswers == rpc = "country_titles" /\ rpc' = "done"

(* the stored records of which name is a substring of the country, whatever the case *)
C15_Matching(name, rows) ==
    {t \in RowSet(rows) : t.country # None /\ SubstringNoCase(name, t.country)}

(* C15: a country lookup for a name that matches no record is answered 404; any other
   is answered 200 with count the number of matching records, titles exactly these
   records, and type_breakdown counts that sum to count. *)
C15_CountryLookup ==
    [][/\ CountryStarts =>
             (C15_Matching(rreq'.name, store) = {}
                 <=> (rpc' = "done" /\ rresp'.status = 404))
       /\ CountryAnswers =>
             /\ rresp'.status = 200
             /\ rresp'.count = Cardinality(C15_Matching(rreq.name, store))
             /\ ListsExactly(rresp'.results, C15_Matching(rreq.name, store))
             /\ SumOfCounts(rresp'.type_breakdown) = rresp'.count]_vars

(***************************************************************************)
(* Properties of recommendations.                                          *)
(***************************************************************************)
RecommendationsStarts == rpc = "idle" /\ rpc' # "idle" /\ rreq'.view = "recommendations"
RecommendationsAnswers == rpc = "recommendations_rows" /\ rpc' = "done"

C16_Given(x) == x # None /\ x # <<>>

(* record t matches: the genre is a substring of its genres whatever the case, its
   kind is the type when a type is given, and its year is at least now - 3 when the
   recent flag is set *)
C16_Matches(q, now, t) ==
    /\ SubstringNoCase(q.genre, t.listed_in)
    /\ C16_Given(q.type) => t.type = q.type
    /\ (C16_Given(q.recent) /\ Lower(q.recent) = <<"t","r","u","e">>) => t.release_year >= now - 3

C16_Matching(q, now, rows) == {t \in RowSet(rows) : C16_Matches(q, now, t)}

C16_ErrorKeys == {"error"}
C16_NormalKeys == {"genre", "count", "recommendations"}

(* C16: recommendations without a genre, or with an empty one, is answered 400 whatever
   the other parameters and the store; with a genre and filters that match no record
   it is answered 200 with a body that has a message field and is neither the error
   body nor the body of genre, count and recommendations. *)
C16_GenreRequired ==
    [][RecommendationsStarts =>
          /\ ~C16_Given(rreq'.rec.genre) =>
                (rpc' = "done" /\ rresp'.status = 400 /\ rresp'.payload = C16_ErrorKeys)
          /\ (C16_Given(rreq'.rec.genre) /\ C16_Matching(rreq'.rec, rreq'.now, store) = {}) =>
                /\ rpc' = "done" /\ rresp'.status = 200
                /\ "message" \in rresp'.payload
                /\ rresp'.payload # C16_ErrorKeys /\ rresp'.payload # C16_NormalKeys
                /\ rresp'.results = <<>>]_vars

(* recommendations for a genre the stored titles have, of a kind none of them has, was
   answered 200 with the message *)
C16_Witness ==
    /\ rpc = "done" /\ rreq.view = "recommendations"
    /\ rresp.status = 200 /\ rresp.payload = {"message"}
    /\ rreq.rec.type = TVShow
    /\ C16_Matching([rreq.rec EXCEPT !.type = None], rreq.now, store) # {}

(* C17: recommendations returns min(20, m) of the m matching records, each once, by
   release year descending and, within a year, date added descending; count is the
   number returned, and no record returned has a smaller release year than a matching
   record left out. *)
C17_TopTwenty ==
    [][RecommendationsAnswers =>
          LET r == rresp'.results
              M == C16_Matching(rreq.rec, rreq.now, store)
          IN  /\ Len(r) = (IF Cardinality(M) < 20 THEN Cardinality(M) ELSE 20)
              /\ \A i \in 1..Len(r) : r[i] \in M
              /\ \A i, j \in 1..Len(r) : r[i] = r[j] => i = j
              /\ rresp'.count = Len(r)
              /\ \A i, j \in 1..Len(r) :
                    i < j =>
                       /\ r[i].release_year >= r[j].release_year
                       /\ (/\ r[i].release_year = r[j].release_year
                           /\ r[i].date_added # None /\ r[j].date_added # None)
                             => ~DateGreater(r[j].date_added, r[i].date_added)
              /\ \A t \in M : (\A i \in 1..Len(r) : r[i] # t) =>
                    \A i \in 1..Len(r) : r[i].release_year >= t.release_year]_vars

(* recommendations answered 20 of more than 20 matching records, the last one taken
   from several of one year *)
C17_Witness ==
    /\ rpc = "done" /\ rreq.view = "recommendations" /\ rresp.status = 200
    /\ rresp.count = 20 /\ Len(rresp.results) = 20
    /\ Cardinality(C16_Matching(rreq.rec, rreq.now, store)) > 20
    /\ \E t \in C16_Matching(rreq.rec, rreq.now, store) :
          /\ t.release_year = rresp.results[20].release_year
          /\ \A i \in 1..20 : rresp.results[i] # t

(***************************************************************************)
(* Properties of title_list and of the default ordering.                   *)
(***************************************************************************)
ListAnswers == rpc = "idle" /\ rpc' = "done" /\ rreq'.view = "list"

C18_Given(x) == x # None /\ x # <<>>

C18_Satisfies(q, t) ==
    /\ C18_Given(q.type) => t.type = q.type
    /\ C18_Given(q.rating) => t.rating = q.rating
    /\ C18_Given(q.year) => (ParsesAsInt(q.year) /\ t.release_year = IntOf(q.year))

C18_Expected(q, rows) == {t \in RowSet(rows) : C18_Satisfies(q, t)}

(* C18 as claimed: a list request with a present year that does not parse as an
   integer is answered 400 with no list, whatever the other parameters; any other is
   answered with exactly the records that match every present, non-empty one of
   type, rating and year. *)
C18_AsClaimed ==
    [][ListAnswers =>
          IF rreq'.list.year # None /\ ~ParsesAsInt(rreq'.list.year)
          THEN rresp'.status = 400 /\ rresp'.results = <<>>
          ELSE /\ rresp'.status = 200
               /\ ListsExactly(rresp'.results, C18_Expected(rreq'.list, store))]_vars

(* C18, amended: a list request with a present, non-empty year that does not parse as
   an integer is answered 400 with no list, whatever the other parameters; any other
   (an empty year is ignored like an absent one) is answered 200 with exactly the
   records that match every present, non-empty one of type, rating and year, all
   records when none is given. *)
C18_ListFilters ==
    [][ListAnswers =>
          IF C18_Given(rreq'.list.year) /\ ~ParsesAsInt(rreq'.list.year)
          THEN rresp'.status = 400 /\ rresp'.results = <<>>
          ELSE /\ rresp'.status = 200
               /\ ListsExactly(rresp'.results, C18_Expected(rreq'.list, store))
               /\ (\A k \in {"type", "rating", "year"} : ~C18_Given(rreq'.list[k]))
                     => Len(rresp'.results) = Len(store)]_vars

(* a list for Movie, PG and the year 2020 was answered with two of three stored
   titles *)
C18_Witness ==
    /\ rpc = "done" /\ rreq.view = "list" /\ rresp.status = 200
    /\ rreq.list = [type |-> Movie, rating |-> PG, year |-> Y2020]
    /\ Len(rresp.results) = 2
    /\ Len(store) = 3

(* r is in the default order: a later date_added first, of one date_added (or of none)
   the later release_year first, and the titles without a date_added all at the end
   the database puts NULL at *)
C19_InDefaultOrder(r) ==
    \A i, j \in 1..Len(r) :
       i < j =>
          /\ (r[i].date_added # None /\ r[j].date_added # None)
                => ~DateGreater(r[j].date_added, r[i].date_added)
          /\ r[i].date_added = r[j].date_added => r[i].release_year >= r[j].release_year
          /\ (r[i].date_added = None /\ r[j].date_added # None) => nullsFirst
          /\ (r[i].date_added # None /\ r[j].date_added = None) => ~nullsFirst

(* C19: the records a list and a search return are in the default order: by date
   added descending, for equal date added by release year descending, the records
   without a date added together at the end the store's null ordering gives them. *)
C19_DefaultOrder ==
    [][(ListAnswers \/ SearchAnswers) => C19_InDefaultOrder(rresp'.results)]_vars

(* a list or a search returned three titles, the first added later than the last and
   of an earlier year than the second, two neighbours of one date and two years *)
C19_Witness ==
    /\ rpc = "done" /\ rreq.view \in {"list", "search"} /\ rresp.status = 200
    /\ Len(rresp.results) = 3
    /\ rresp.results[1].date_added # rresp.results[3].date_added
    /\ rresp.results[1].release_year < rresp.results[2].release_year
    /\ \E i \in 1..2 :
          /\ rresp.results[i].date_added = rresp.results[i + 1].date_added
          /\ rresp.results[i].release_year > rresp.results[i + 1].release_year

(***************************************************************************)
(* Properties of the bulk load.                                            *)
(***************************************************************************)
LoadRuns == lpc = "loading" /\ lpc' = "done" /\ lopt.file # None

(* a row that fails on its own: a column the line does not reach, or a release_year
   that is no integer *)
C20_FailsAlone(row) ==
    \/ \E f \in FieldNames \ {"date_added"} : row[f] = None
    \/ ~ParsesAsInt(row["release_year"])

C20_Failing(rows) == {i \in 1..Len(rows) : C20_FailsAlone(rows[i])}

C20_DateUnparsed(row) ==
    /\ row["date_added"] # None /\ Strip(row["date_added"]) # <<>>
    /\ ~ParsesAsLongDate(Strip(row["date_added"]))

(* C20: a bulk-load run skips each row that fails on its own and records its error,
   stores every other row of the file, so that stored rows plus recorded failures are
   the data rows read; a row whose date_added cannot be parsed is no failure and is
   stored without a date_added. *)
C20_RowFailuresSkipped ==
    [][LoadRuns =>
          LET rows == lopt.file IN
          /\ lres'.errors = Cardinality(C20_Failing(rows))
          /\ Len(store') - Len(store) = Len(rows) - Cardinality(C20_Failing(rows))
          /\ (Len(store') - Len(store)) + lres'.errors = Len(rows)
          /\ \A i \in 1..Len(rows) :
                ~C20_FailsAlone(rows[i]) =>
                   \E k \in (Len(store) + 1)..Len(store') :
                      /\ store'[k].show_id = Strip(rows[i]["show_id"])
                      /\ C20_DateUnparsed(rows[i]) => store'[k].date_added = None]_vars

(* the rows of the file that are prepared for the insert *)
C21_Prepared(rows) == {i \in 1..Len(rows) : ~C20_FailsAlone(rows[i])}

C21_AllStored(rows) ==
    /\ Len(store') - Len(store) = Cardinality(C21_Prepared(rows))
    /\ \A i \in C21_Prepared(rows) :
          \E k \in (Len(store) + 1)..Len(store') :
             store'[k].show_id = Strip(rows[i]["show_id"])

(* C21: the bulk load inserts in one transaction at the end of the run: the run leaves
   the table with every prepared row added to it or with no row added, never with only
   part of the prepared rows. *)
C21_AllOrNothing ==
    [][LoadRuns =>
          /\ SubSeq(store', 1, Len(store)) = store
          /\ C21_AllStored(lopt.file) \/ store' = store]_vars

(* a run ended with the insert refused although a prepared row was new to the table *)
C21_Witness ==
    /\ lpc = "done" /\ lres.outcome = "error"
    /\ Cardinality(C21_Prepared(lopt.file)) >= 2
    /\ \E i \in C21_Prepared(lopt.file) :
          ~IdExists(store, Strip(lopt.file[i]["show_id"]))

(***************************************************************************)
(* Properties of the helper methods of NetflixTitle.                       *)
(***************************************************************************)
Called(m) == mret[m].kind # "none"

(* the places of the commas of text, and its k-th comma-separated token *)
C22_Commas(text) == {i \in 1..Len(text) : text[i] = ","}
C22_CommaNo(text, k) ==
    CHOOSE i \in C22_Commas(text) : Cardinality({j \in C22_Commas(text) : j < i}) = k - 1
C22_Token(text, k) ==
    SubSeq(text,
           IF k = 1 THEN 1 ELSE C22_CommaNo(text, k - 1) + 1,
           IF k = Cardinality(C22_Commas(text)) + 1 THEN Len(text)
           ELSE C22_CommaNo(text, k) - 1)

(* e is token with the spaces at its ends removed *)
C22_Trimmed(e, token) ==
    /\ e = <<>> \/ (e[1] # " " /\ e[Len(e)] # " ")
    /\ \E a, b \in 0..Len(token) :
          /\ a + Len(e) + b = Len(token)
          /\ SubSeq(token, a + 1, a + Len(e)) = e
          /\ \A i \in (1..a) \cup ((a + Len(e) + 1)..Len(token)) : token[i] = " "

C22_OnePerToken(list, text) ==
    /\ Len(list) = Cardinality(C22_Commas(text)) + 1
    /\ \A k \in 1..Len(list) : C22_Trimmed(list[k], C22_Token(text, k))

(* C22: for every record get_genres yields a non-empty sequence with one trimmed entry
   per comma-separated token of the genres, and get_cast_list yields the empty sequence
   when the cast is absent or empty and one trimmed entry per comma-separated token of
   the cast otherwise. *)
C22_GenresAndCast ==
    /\ Called("get_genres") =>
          /\ mret["get_genres"].kind = "list"
          /\ mret["get_genres"].value # <<>>
          /\ C22_OnePerToken(mret["get_genres"].value, inst.listed_in)
    /\ Called("get_cast_list") =>
          /\ mret["get_cast_list"].kind = "list"
          /\ IF inst.cast = None \/ inst.cast = <<>>
             THEN mret["get_cast_list"].value = <<>>
             ELSE C22_OnePerToken(mret["get_cast_list"].value, inst.cast)

(* both methods have answered for a record without cast and with several genres, one
   of them written with spaces around it *)
C22_Witness ==
    /\ Called("get_genres") /\ Called("get_cast_list")
    /\ inst.cast = None /\ mret["get_cast_list"].value = <<>>
    /\ Len(mret["get_genres"].value) = 3
    /\ \E k \in 1..3 : Len(mret["get_genres"].value[k]) < Len(C22_Token(inst.listed_in, k))

(* duration starts, after the spaces before it, with the decimal number n as a word *)
C23_LeadsWith(duration, n) ==
    LET d == LStrip(duration)
        w == NatToText(n)
    IN  /\ Len(d) >= Len(w)
        /\ SubSeq(d, 1, Len(w)) = w
        /\ Len(d) > Len(w) => d[Len(w) + 1] = " "

C23_Number(m, kind, word) ==
    /\ mret[m].kind = "int" =>
          /\ inst.type = kind
          /\ Contains(inst.duration, word)
          /\ C23_LeadsWith(inst.duration, mret[m].value)
    /\ inst.type # kind => mret[m].kind = "None"

(* C23: get_duration_minutes returns the leading number of the duration only for a Movie
   whose duration contains 'min', and None for every TV Show; get_duration_seasons
   returns the leading number only for a TV Show whose duration contains 'Season', and
   None for every Movie; for no record do both return something other than None. *)
C23_DurationByKind ==
    /\ Called("get_duration_minutes") =>
          C23_Number("get_duration_minutes", Movie, <<"m","i","n">>)
    /\ Called("get_duration_seasons") =>
          C23_Number("get_duration_seasons", TVShow, <<"S","e","a","s","o","n">>)
    /\ Called("get_duration_minutes") /\ Called("get_duration_seasons") =>
          mret["get_duration_minutes"].kind = "None"
             \/ mret["get_duration_seasons"].kind = "None"

(* both methods have answered for a Movie of 90 minutes *)
C23_Witness ==
    /\ inst.type = Movie /\ inst.duration = Min90
    /\ mret["get_duration_minutes"] = Returns("int", 90)
    /\ mret["get_duration_seasons"] = ReturnsNone

(***************************************************************************)
(* Concurrent create requests.                                             *)
(***************************************************************************)
(* handler w answers its request in this step *)
CreateAnswers(w) == cpc[w] # "done" /\ cpc'[w] = "done"

(* C24: in every interleaving of concurrent create requests that carry the same id, each
   request whose record is not stored is answered with the client error 400 of a
   duplicate id, never with an unhandled failure or any other response. *)
C24_DuplicateAnswered400 ==
    [][\A w \in Creators :
          CreateAnswers(w) /\ store' = store /\ CarriesStoredId(creq'[w], store')
             => cresp'[w] = 400]_vars

(***************************************************************************)
(* A bulk load that fails as a whole.                                      *)
(***************************************************************************)
(* a run on this file cannot succeed: there is no file, or two of its prepared rows
   carry the same id *)
C25_CannotLoad(file) ==
    \/ file = None
    \/ \E i, j \in C21_Prepared(file) :
          i # j /\ Strip(file[i]["show_id"]) = Strip(file[j]["show_id"])

LoadStarts == lpc = "idle" /\ lpc' = "loading"
LoadFails == lpc = "loading" /\ lpc' = "done" /\ lres'.outcome \in {"missing", "error"}

(* C25: a bulk-load run that fails as a whole (missing file, or final insert rejected)
   leaves the store with exactly the records it had before the run, also when the run
   was started with the clear option: no step of such a run changes the store. *)
C25_FailedRunKeepsStore ==
    [][(LoadFails \/ (LoadStarts /\ C25_CannotLoad(lopt'.file))) => store' = store]_vars

====
